---- MODULE Spec2Model ----
(***************************************************************************)
(* A model of the code-code-server devcontainer launcher.                  *)
(*                                                                         *)
(*   - the launcher process (cmd/code/main.go and package project):        *)
(*     argument checks, descriptor parse, settings repository             *)
(*     construction, image build, address resolution, container run,      *)
(*     signal wait and teardown, together with the three docker           *)
(*     subprocesses it starts and the signals the OS delivers to it;      *)
(*   - the Dockerfile synthesizer (package dockerfile): WrapDockerFile     *)
(*     and the helpers it calls, with JSON text and base64 at byte level;  *)
(*   - the builder image's scripts/entrypoint.sh: the setup lock, the      *)
(*     state file, the folder and item loops, execute_script and the       *)
(*     subshells of execute_parallel_scripts.                              *)
(***************************************************************************)
EXTENDS Integers, Sequences, FiniteSets, TLC

\* ------------------------------------------------------------------------
\* Bounds of the model
\* ------------------------------------------------------------------------

\* The number of HUP/INT/TERM signals the OS delivers to the launcher.
MaxSignals == 2

\* ------------------------------------------------------------------------
\* The launcher: state
\* ------------------------------------------------------------------------

VARIABLES
    pc,            \* position of the launcher's main goroutine
    mainErr,       \* the error main's Action returned ("none" while it has none)
    exitStatus,    \* "running", "exit0", "exit1", or "signal" (ended by an unhandled signal)
    reported,      \* TRUE once log.Fatal has printed an error to the operator
    engineCalls,   \* docker subprocesses issued so far, in order
    buildProc,     \* the docker build subprocess
    runProc,       \* the docker run subprocess (the supervised container)
    killProc,      \* the docker kill subprocess
    listener,      \* the probe listener of getAvailablePort
    url,           \* the ServiceURL computed by GetServiceURL
    ctx,           \* the ContainerContext built by NewContainerContext
    banner,        \* ports shown by prettyUrlPrint, one entry per banner printed
    notified,      \* TRUE once signal.Notify has registered the channel
    sigChan,       \* the buffered channel s of waitForSignal (capacity 1)
    sigSent,       \* signals delivered to the launcher so far
    sigAfterStart, \* signals delivered after cmd.Start succeeded
    runResult,     \* what ContainerContext.Run returns ("none" before it does)
    met,           \* the failure conditions the launcher has met in its environment
    otherBound     \* the ports other processes of the host have bound

lvars == <<pc, mainErr, exitStatus, reported, engineCalls, buildProc, runProc,
           killProc, listener, url, ctx, banner, notified, sigChan, sigSent,
           sigAfterStart, runResult, met, otherBound>>

\* The Dockerfile synthesizer: state
VARIABLES
    devcontainer,  \* the DevContainer the caller holds (its maps are shared with callees)
    loaded,        \* the DevContainer as ParseJson returned it
    repository,    \* the settings Repository: filename -> what Get returns
    fetched,       \* the filenames Get was called with, in order
    out,           \* what WrapDockerFile returned
    spc,           \* "idle", "ready" (before the call), "returned", "built" or "context"
    buildCmd,      \* the docker build command of BuildImage: its tag and arguments
    runCmd         \* the docker run command of NewContainerContext: its name and arguments

svars == <<devcontainer, loaded, repository, fetched, out, spc, buildCmd, runCmd>>

VARIABLES
    lockFile,      \* whether /tmp/devcontainer-setup.lock exists
    stateFile,     \* setup-state.json: NoFile or its content
    exitFiles,     \* the parallel_exit_<name>_$$ files of the invocation: name -> code
    runNo,         \* how many times entrypoint.sh has been invoked
    invocations,   \* the option flags of every invocation so far, in order
    epc,           \* where the entrypoint.sh process is
    folderIdx,     \* the folder of setup.d the main loop is at
    itemIdx,       \* the item of the folder the inner loop is at
    folderSuccess, \* folder_success
    pids,          \* pids of execute_parallel_scripts: the script each subshell runs
    waitIdx,       \* the index i of the wait loop
    overall,       \* overall_exit_code
    children,      \* the subshells: script -> [pc, pending]
    exits,         \* the exit status of every invocation that has ended, in order
    begun,         \* history: <<runNo, script>> for every `bash script` started
    finished,      \* history: <<runNo, script, code>> for every script that ended
    peer           \* a second entrypoint.sh process started next to the first

evars == <<lockFile, stateFile, exitFiles, runNo, invocations, epc, folderIdx, itemIdx,
           folderSuccess, pids, waitIdx, overall, children, exits, begun,
           finished, peer>>

Signals == {"SIGHUP", "SIGINT", "SIGTERM"}

\* Outcomes of makeRandomString (two of the 52^16 names).
Names == {"qXbTzrLmWkPdYcHa", "GfJvNeUoSiRtAwBx"}

\* Ports the OS may assign to a listener on ":0".
Ports == {49152, 58818}

NoURL == [Host |-> "", Port |-> 0, WorkspaceFolder |-> ""]
NoCtx == [name |-> "", port |-> 0, workdir |-> ""]

LInit ==
    /\ pc = "checkArgs"
    /\ mainErr = "none"
    /\ exitStatus = "running"
    /\ reported = FALSE
    /\ engineCalls = <<>>
    /\ buildProc = "none"
    /\ runProc = "none"
    /\ killProc = "none"
    /\ listener = "none"
    /\ url = NoURL
    /\ ctx = NoCtx
    /\ banner = <<>>
    /\ notified = FALSE
    /\ sigChan = <<>>
    /\ sigSent = 0
    /\ sigAfterStart = 0
    /\ runResult = "none"
    /\ met = {}
    /\ otherBound = {}

\* ------------------------------------------------------------------------
\* The launcher: main
\* ------------------------------------------------------------------------

\* The Action returns err; app.Run hands it to main, and log.Fatal(err)
\* prints it and exits with status 1.
Fail(e) ==
    /\ pc' = "exited"
    /\ mainErr' = e
    /\ exitStatus' = "exit1"
    /\ reported' = TRUE

Goto(p) ==
    /\ pc' = p
    /\ UNCHANGED <<mainErr, exitStatus, reported>>

\* A step whose outcome the environment decides: on success main goes on at
\* `next`, on failure the step's error is returned (`if err != nil { return err }`).
Outcome(ok, cond, next, e) ==
    /\ met' = IF ok THEN met ELSE met \cup {cond}
    /\ IF ok THEN Goto(next) ELSE Fail(e)

\* The Action returns nil: main falls off its end, status 0, nothing printed.
ReturnNil ==
    /\ pc' = "exited"
    /\ exitStatus' = "exit0"
    /\ UNCHANGED <<mainErr, reported>>

CheckArgs ==
    /\ pc = "checkArgs"
    /\ \E argsLen \in {0, 1} :
          Outcome(argsLen # 0, "noArgs", "statProject",
                  "Please provide a project directory")
    /\ UNCHANGED <<engineCalls, buildProc, runProc, killProc, listener, url, ctx,
                   banner, notified, sigChan, sigSent, sigAfterStart, runResult>>
    /\ UNCHANGED <<svars, evars, otherBound>>

StatProject ==
    /\ pc = "statProject"
    /\ \E notExist \in BOOLEAN :
          Outcome(~notExist, "noProjectDir", "statDevcontainer",
                  "Project directory does not exist")
    /\ UNCHANGED <<engineCalls, buildProc, runProc, killProc, listener, url, ctx,
                   banner, notified, sigChan, sigSent, sigAfterStart, runResult>>
    /\ UNCHANGED <<svars, evars, otherBound>>

StatDevcontainer ==
    /\ pc = "statDevcontainer"
    /\ \E notExist \in BOOLEAN :
          Outcome(~notExist, "noDevcontainerDir", "parseJson",
                  "Project directory does not contain a .devcontainer directory")
    /\ UNCHANGED <<engineCalls, buildProc, runProc, killProc, listener, url, ctx,
                   banner, notified, sigChan, sigSent, sigAfterStart, runResult>>
    /\ UNCHANGED <<svars, evars, otherBound>>

\* devcontainer.ParseJson: ReadFile, json5.Unmarshal, filepath.Abs.
ParseJsonStep ==
    /\ pc = "parseJson"
    /\ \E outcome \in {"ok", "noJson", "badJson"} :
          Outcome(outcome = "ok", outcome, "gistNew",
                  IF outcome = "noJson" THEN "ReadFile devcontainer.json"
                                        ELSE "json5.Unmarshal")
    /\ UNCHANGED <<engineCalls, buildProc, runProc, killProc, listener, url, ctx,
                   banner, notified, sigChan, sigSent, sigAfterStart, runResult>>
    /\ UNCHANGED <<svars, evars, otherBound>>

\* GistNew with the error of gist.New dropped: main builds all the same.
GistNew_ErrorDropped ==
    /\ pc = "gistNew"
    /\ \E gistIdSet \in BOOLEAN :
          /\ met' = IF gistIdSet THEN met ELSE met \cup {"noGistId"}
          /\ Goto("wrapDockerFile")
    /\ UNCHANGED <<engineCalls, buildProc, runProc, killProc, listener, url, ctx,
                   banner, notified, sigChan, sigSent, sigAfterStart, runResult>>
    /\ UNCHANGED <<svars, evars, otherBound>>

\* gist.New: fails when SETTINGS_SYNC_GIST_ID is empty.
GistNew ==
    /\ pc = "gistNew"
    /\ \E gistIdSet \in BOOLEAN :
          Outcome(gistIdSet, "noGistId", "wrapDockerFile",
                  "SETTINGS_SYNC_GIST_ID is not set")
    /\ UNCHANGED <<engineCalls, buildProc, runProc, killProc, listener, url, ctx,
                   banner, notified, sigChan, sigSent, sigAfterStart, runResult>>
    /\ UNCHANGED <<svars, evars, otherBound>>

\* BuildImage, first half: WrapDockerFile, whose only error is the read of
\* the base Dockerfile.
BuildImageWrap ==
    /\ pc = "wrapDockerFile"
    /\ \E readable \in BOOLEAN :
          Outcome(readable, "noDockerfile", "buildStart", "ReadFile Dockerfile")
    /\ UNCHANGED <<engineCalls, buildProc, runProc, killProc, listener, url, ctx,
                   banner, notified, sigChan, sigSent, sigAfterStart, runResult>>
    /\ UNCHANGED <<svars, evars, otherBound>>

\* BuildImage, cmd.Run(): start `docker build -t tag -f - ... context`.
BuildImageStart ==
    /\ pc = "buildStart"
    /\ \E started \in BOOLEAN :
          IF started
          THEN /\ Goto("buildWait")
               /\ buildProc' = "running"
          ELSE /\ Fail("docker build: start")
               /\ buildProc' = "notStarted"
    /\ engineCalls' = Append(engineCalls, [cmd |-> "build", name |-> ""])
    /\ UNCHANGED <<runProc, killProc, listener, url, ctx,
                   banner, notified, sigChan, sigSent, sigAfterStart, runResult, met>>
    /\ UNCHANGED <<svars, evars, otherBound>>

\* The docker build subprocess ends with status 0 or not.
BuildProcExit ==
    /\ buildProc = "running"
    /\ \E status \in {"exit0", "exit1"} : buildProc' = status
    /\ UNCHANGED <<pc, mainErr, exitStatus, reported, engineCalls, runProc,
                   killProc, listener, url, ctx, banner, notified, sigChan,
                   sigSent, sigAfterStart, runResult, met>>
    /\ UNCHANGED <<svars, evars, otherBound>>

\* BuildImageReturn with the exit status of docker build not looked at.
BuildImageReturn_StatusIgnored ==
    /\ pc = "buildWait"
    /\ buildProc \in {"exit0", "exit1"}
    /\ Goto("getHost")
    /\ UNCHANGED <<engineCalls, buildProc, runProc, killProc, listener, url, ctx,
                   banner, notified, sigChan, sigSent, sigAfterStart, runResult, met>>
    /\ UNCHANGED <<svars, evars, otherBound>>

\* BuildImage, cmd.Run() returns once the subprocess has exited.
BuildImageReturn ==
    /\ pc = "buildWait"
    /\ buildProc \in {"exit0", "exit1"}
    /\ IF buildProc = "exit0" THEN Goto("getHost") ELSE Fail("docker build: exit status 1")
    /\ UNCHANGED <<engineCalls, buildProc, runProc, killProc, listener, url, ctx,
                   banner, notified, sigChan, sigSent, sigAfterStart, runResult, met>>
    /\ UNCHANGED <<svars, evars, otherBound>>

\* GetServiceURL: getHostname, and getIPAddress when that fails.
GetHost ==
    /\ pc = "getHost"
    /\ \E hostnameOk \in BOOLEAN, ipOk \in BOOLEAN :
          IF hostnameOk
          THEN /\ Goto("getPort")
               /\ url' = [url EXCEPT !.Host = "tororo.local"]
          ELSE IF ipOk
          THEN /\ Goto("getPort")
               /\ url' = [url EXCEPT !.Host = "192.168.0.2"]
          ELSE /\ Fail("No IP address found, and no localhost found")
               /\ url' = url
    /\ UNCHANGED <<engineCalls, buildProc, runProc, killProc, listener,
                   ctx, banner, notified, sigChan, sigSent, sigAfterStart, runResult, met>>
    /\ UNCHANGED <<svars, evars, otherBound>>

\* getAvailablePort: net.Listen("tcp", ":0") and the read of the port; the
\* OS assigns a port no process has bound.
GetPortListen ==
    /\ pc = "getPort"
    /\ \/ /\ Fail("listen tcp :0")
          /\ UNCHANGED <<listener, url>>
       \/ \E p \in Ports \ otherBound :
             /\ Goto("portClose")
             /\ listener' = "open"
             /\ url' = [url EXCEPT !.Port = p]
    /\ UNCHANGED <<engineCalls, buildProc, runProc, killProc,
                   ctx, banner, notified, sigChan, sigSent, sigAfterStart, runResult, met>>
    /\ UNCHANGED <<svars, evars, otherBound>>

\* GetPortClose without the deferred Close: the listener stays open.
GetPortClose_ListenerKept ==
    /\ pc = "portClose"
    /\ listener' = listener
    /\ Goto("getWorkspaceFolder")
    /\ UNCHANGED <<engineCalls, buildProc, runProc, killProc, url,
                   ctx, banner, notified, sigChan, sigSent, sigAfterStart, runResult, met>>
    /\ UNCHANGED <<svars, evars, otherBound>>

\* getAvailablePort: the deferred listener.Close() on return.
GetPortClose ==
    /\ pc = "portClose"
    /\ listener' = "closed"
    /\ Goto("getWorkspaceFolder")
    /\ UNCHANGED <<engineCalls, buildProc, runProc, killProc, url,
                   ctx, banner, notified, sigChan, sigSent, sigAfterStart, runResult, met>>
    /\ UNCHANGED <<svars, evars, otherBound>>

\* getWorkspaceFolder: interpolate.Interpolate of the template.
GetWorkspaceFolder ==
    /\ pc = "getWorkspaceFolder"
    /\ \E ok \in BOOLEAN :
          IF ok
          THEN /\ Goto("newContext")
               /\ url' = [url EXCEPT !.WorkspaceFolder = "/workspace/project"]
          ELSE /\ Fail("interpolate workspaceFolder")
               /\ url' = NoURL
    /\ UNCHANGED <<engineCalls, buildProc, runProc, killProc, listener,
                   ctx, banner, notified, sigChan, sigSent, sigAfterStart, runResult, met>>
    /\ UNCHANGED <<svars, evars, otherBound>>

\* NewContainerContext: the random name, the argument list, exec.Command.
NewContainerContext ==
    /\ pc = "newContext"
    /\ \E n \in Names, bindingOk \in BOOLEAN :
          IF bindingOk
          THEN /\ Goto("banner")
               /\ ctx' = [name |-> n, port |-> url.Port,
                          workdir |-> url.WorkspaceFolder]
          ELSE /\ Fail("interpolate workspaceMount")
               /\ ctx' = NoCtx
    /\ UNCHANGED <<engineCalls, buildProc, runProc, killProc, listener, url,
                   banner, notified, sigChan, sigSent, sigAfterStart, runResult, met>>
    /\ UNCHANGED <<svars, evars, otherBound>>

\* prettyUrlPrint(url)
PrettyUrlPrint ==
    /\ pc = "banner"
    /\ banner' = Append(banner, url)
    /\ Goto("cmdStart")
    /\ UNCHANGED <<engineCalls, buildProc, runProc, killProc, listener, url,
                   ctx, notified, sigChan, sigSent, sigAfterStart, runResult, met>>
    /\ UNCHANGED <<svars, evars, otherBound>>

\* ------------------------------------------------------------------------
\* The launcher: ContainerContext.Run
\* ------------------------------------------------------------------------

\* Run: c.cmd.Start(). On an error Run returns it at once.
RunStart ==
    /\ pc = "cmdStart"
    /\ engineCalls' = Append(engineCalls, [cmd |-> "run", name |-> ctx.name])
    /\ \E started \in BOOLEAN :
          IF started
          THEN /\ runProc' = "running"
               /\ runResult' = runResult
               /\ Goto("notify")
          ELSE /\ runProc' = "notStarted"
               /\ runResult' = "startErr"
               /\ Goto("runReturned")
    /\ UNCHANGED <<buildProc, killProc, listener, url, ctx, banner, notified,
                   sigChan, sigSent, sigAfterStart, met>>
    /\ UNCHANGED <<svars, evars, otherBound>>

\* waitForSignal: make(chan os.Signal, 1); signal.Notify(s, HUP, INT, TERM).
WaitForSignalNotify ==
    /\ pc = "notify"
    /\ notified' = TRUE
    /\ Goto("waitSignal")
    /\ UNCHANGED <<engineCalls, buildProc, runProc, killProc, listener, url,
                   ctx, banner, sigChan, sigSent, sigAfterStart, runResult, met>>
    /\ UNCHANGED <<svars, evars, otherBound>>

\* waitForSignal: <-s, the only thing the wait receives from.
WaitForSignalReceive ==
    /\ pc = "waitSignal"
    /\ Len(sigChan) > 0
    /\ sigChan' = Tail(sigChan)
    /\ Goto("killStart")
    /\ UNCHANGED <<engineCalls, buildProc, runProc, killProc, listener, url,
                   ctx, banner, notified, sigSent, sigAfterStart, runResult, met>>
    /\ UNCHANGED <<svars, evars, otherBound>>

\* stop: exec.Command("docker", "kill", c.name), cmd.Run() starts it.
StopStart ==
    /\ pc = "killStart"
    /\ engineCalls' = Append(engineCalls, [cmd |-> "kill", name |-> ctx.name])
    /\ \E started \in BOOLEAN :
          IF started THEN killProc' = "running" ELSE killProc' = "failed"
    /\ Goto("killWait")
    /\ UNCHANGED <<buildProc, runProc, listener, url, ctx, banner, notified,
                   sigChan, sigSent, sigAfterStart, runResult, met>>
    /\ UNCHANGED <<svars, evars, otherBound>>

\* The docker kill subprocess ends. It can succeed only against a container
\* that is there, and then the container (and docker run with it) ends; it
\* can fail in any case (daemon unreachable, container not yet created).
KillProcExit ==
    /\ killProc = "running"
    /\ \/ /\ runProc = "running"
          /\ killProc' = "ok"
          /\ runProc' = "exited"
       \/ /\ killProc' = "failed"
          /\ runProc' = runProc
    /\ UNCHANGED <<pc, mainErr, exitStatus, reported, engineCalls, buildProc,
                   listener, url, ctx, banner, notified, sigChan, sigSent,
                   sigAfterStart, runResult, met>>
    /\ UNCHANGED <<svars, evars, otherBound>>

\* StopReturn with a failed kill tried again.
StopReturn_RetryOnFailure ==
    /\ pc = "killWait"
    /\ killProc \in {"ok", "failed"}
    /\ runResult' = IF killProc = "ok" THEN "nil" ELSE runResult
    /\ IF killProc = "ok" THEN Goto("deferWait") ELSE Goto("killStart")
    /\ UNCHANGED <<engineCalls, buildProc, runProc, killProc, listener, url,
                   ctx, banner, notified, sigChan, sigSent, sigAfterStart, met>>
    /\ UNCHANGED <<svars, evars, otherBound>>

\* stop: cmd.Run() returns the subprocess's result, and Run's `return
\* c.stop()` makes it Run's result; the deferred c.cmd.Wait() runs next.
StopReturn ==
    /\ pc = "killWait"
    /\ killProc \in {"ok", "failed"}
    /\ runResult' = IF killProc = "ok" THEN "nil" ELSE "killErr"
    /\ Goto("deferWait")
    /\ UNCHANGED <<engineCalls, buildProc, runProc, killProc, listener, url,
                   ctx, banner, notified, sigChan, sigSent, sigAfterStart, met>>
    /\ UNCHANGED <<svars, evars, otherBound>>

\* Run: the deferred c.cmd.Wait() returns once docker run has exited.
RunDeferredWait ==
    /\ pc = "deferWait"
    /\ runProc = "exited"
    /\ Goto("runReturned")
    /\ UNCHANGED <<engineCalls, buildProc, runProc, killProc, listener, url,
                   ctx, banner, notified, sigChan, sigSent, sigAfterStart, runResult, met>>
    /\ UNCHANGED <<svars, evars, otherBound>>

\* main: `ctx.Run()` as a statement (its result is dropped), `return nil`.
MainAfterRun ==
    /\ pc = "runReturned"
    /\ ReturnNil
    /\ UNCHANGED <<engineCalls, buildProc, runProc, killProc, listener, url,
                   ctx, banner, notified, sigChan, sigSent, sigAfterStart, runResult, met>>
    /\ UNCHANGED <<svars, evars, otherBound>>

\* ------------------------------------------------------------------------
\* The launcher's environment
\* ------------------------------------------------------------------------

\* The supervised container (docker run) ends on its own.
RunProcExit ==
    /\ runProc = "running"
    /\ runProc' = "exited"
    /\ UNCHANGED <<pc, mainErr, exitStatus, reported, engineCalls, buildProc,
                   killProc, listener, url, ctx, banner, notified, sigChan,
                   sigSent, sigAfterStart, runResult, met>>
    /\ UNCHANGED <<svars, evars, otherBound>>

\* The OS delivers HUP, INT or TERM to the launcher process. With the
\* channel registered the Go runtime sends on it without blocking (a full
\* channel drops the signal); without, the default disposition ends the
\* process.
Signal ==
    /\ exitStatus = "running"
    /\ sigSent < MaxSignals
    /\ \E sig \in Signals :
          IF notified
          THEN /\ sigChan' = IF Len(sigChan) < 1 THEN Append(sigChan, sig) ELSE sigChan
               /\ UNCHANGED <<pc, mainErr, exitStatus, reported>>
          ELSE /\ pc' = "killed"
               /\ exitStatus' = "signal"
               /\ UNCHANGED <<mainErr, reported, sigChan>>
    /\ sigSent' = sigSent + 1
    /\ sigAfterStart' = IF runProc \in {"running", "exited"}
                        THEN sigAfterStart + 1 ELSE sigAfterStart
    /\ UNCHANGED <<engineCalls, buildProc, runProc, killProc, listener, url,
                   ctx, banner, notified, runResult, met>>
    /\ UNCHANGED <<svars, evars, otherBound>>

LauncherStep ==
    \/ CheckArgs
    \/ StatProject
    \/ StatDevcontainer
    \/ ParseJsonStep
    \/ GistNew
    \/ BuildImageWrap
    \/ BuildImageStart
    \/ BuildImageReturn
    \/ GetHost
    \/ GetPortListen
    \/ GetPortClose
    \/ GetWorkspaceFolder
    \/ NewContainerContext
    \/ PrettyUrlPrint
    \/ RunStart
    \/ WaitForSignalNotify
    \/ WaitForSignalReceive
    \/ StopStart
    \/ StopReturn
    \/ RunDeferredWait
    \/ MainAfterRun

LNext ==
    \/ LauncherStep
    \/ BuildProcExit
    \/ KillProcExit
    \/ RunProcExit
    \/ Signal


\* ------------------------------------------------------------------------
\* Byte strings. A Go string that the code encodes or parses is a sequence
\* of bytes (0..255).
\* ------------------------------------------------------------------------

\* encoding/base64 StdEncoding.EncodeToString, and the `base64 -d` that the
\* generated Dockerfile runs on it.
B64Char(i) ==
    IF i < 26 THEN 65 + i
    ELSE IF i < 52 THEN 97 + (i - 26)
    ELSE IF i < 62 THEN 48 + (i - 52)
    ELSE IF i = 62 THEN 43 ELSE 47

B64Index(c) ==
    IF c >= 65 /\ c <= 90 THEN c - 65
    ELSE IF c >= 97 /\ c <= 122 THEN c - 97 + 26
    ELSE IF c >= 48 /\ c <= 57 THEN c - 48 + 52
    ELSE IF c = 43 THEN 62 ELSE 63

RECURSIVE EncodeToString(_)
EncodeToString(src) ==
    IF Len(src) = 0 THEN <<>>
    ELSE IF Len(src) = 1 THEN
        <<B64Char(src[1] \div 4), B64Char((src[1] % 4) * 16), 61, 61>>
    ELSE IF Len(src) = 2 THEN
        <<B64Char(src[1] \div 4),
          B64Char((src[1] % 4) * 16 + src[2] \div 16),
          B64Char((src[2] % 16) * 4), 61>>
    ELSE
        <<B64Char(src[1] \div 4),
          B64Char((src[1] % 4) * 16 + src[2] \div 16),
          B64Char((src[2] % 16) * 4 + src[3] \div 64),
          B64Char(src[3] % 64)>> \o EncodeToString(SubSeq(src, 4, Len(src)))

RECURSIVE Base64Decode(_)
Base64Decode(s) ==
    IF Len(s) < 4 THEN <<>>
    ELSE LET a == B64Index(s[1])
             b == B64Index(s[2])
             c == B64Index(s[3])
             d == B64Index(s[4])
             rest == Base64Decode(SubSeq(s, 5, Len(s)))
         IN  IF s[3] = 61 THEN <<a * 4 + b \div 16>>
             ELSE IF s[4] = 61 THEN <<a * 4 + b \div 16, (b % 16) * 16 + c \div 4>>
             ELSE <<a * 4 + b \div 16, (b % 16) * 16 + c \div 4, (c % 4) * 64 + d>> \o rest

\* ------------------------------------------------------------------------
\* JSON. A decoded value (Go's interface{}) is one of: nil, bool, float64,
\* string, []interface{}, map[string]interface{}.
\* ------------------------------------------------------------------------

JNull == [t |-> "null"]
JBool(b) == [t |-> "bool", b |-> b]
JNum(n) == [t |-> "num", n |-> n]
JStr(s) == [t |-> "str", s |-> s]
JArr(e) == [t |-> "arr", e |-> e]
JObj(m) == [t |-> "obj", m |-> m]
EmptyMap == [k \in {} |-> JNull]

RECURSIVE LexLess(_, _)
LexLess(a, b) ==
    IF Len(a) = 0 THEN Len(b) > 0
    ELSE IF Len(b) = 0 THEN FALSE
    ELSE IF a[1] # b[1] THEN a[1] < b[1]
    ELSE LexLess(Tail(a), Tail(b))

RECURSIVE SortedKeys(_)
SortedKeys(S) ==
    IF S = {} THEN <<>>
    ELSE LET k == CHOOSE x \in S : \A y \in S \ {x} : LexLess(x, y)
         IN  <<k>> \o SortedKeys(S \ {k})

RECURSIVE Digits(_)
Digits(n) == IF n < 10 THEN <<48 + n>> ELSE Digits(n \div 10) \o <<48 + (n % 10)>>

RECURSIVE Marshal(_)
RECURSIVE MarshalMembers(_, _)
RECURSIVE MarshalElements(_)
Marshal(v) ==
    CASE v.t = "null" -> <<110, 117, 108, 108>>
      [] v.t = "bool" -> IF v.b THEN <<116, 114, 117, 101>> ELSE <<102, 97, 108, 115, 101>>
      [] v.t = "num"  -> Digits(v.n)
      [] v.t = "str"  -> <<34>> \o v.s \o <<34>>
      [] v.t = "arr"  -> <<91>> \o MarshalElements(v.e) \o <<93>>
      [] v.t = "obj"  -> <<123>> \o MarshalMembers(v.m, SortedKeys(DOMAIN v.m)) \o <<125>>
MarshalMembers(m, keys) ==
    IF keys = <<>> THEN <<>>
    ELSE <<34>> \o keys[1] \o <<34, 58>> \o Marshal(m[keys[1]])
         \o (IF Len(keys) > 1 THEN <<44>> ELSE <<>>) \o MarshalMembers(m, Tail(keys))
MarshalElements(e) ==
    IF e = <<>> THEN <<>>
    ELSE Marshal(e[1]) \o (IF Len(e) > 1 THEN <<44>> ELSE <<>>) \o MarshalElements(Tail(e))

IsSpace(c) == c \in {32, 9, 13, 10}

RECURSIVE Spaces(_)
Spaces(n) == IF n = 0 THEN <<>> ELSE <<32>> \o Spaces(n - 1)
Newline(depth) == <<10>> \o Spaces(2 * depth)

\* json.Indent(&out, data.Bytes(), "", "  "): the scanner's walk over the
\* bytes. Space before and inside the value is dropped, space after it is
\* copied; an empty object or array stays {} or [].
RECURSIVE IndentFrom(_, _, _, _, _, _)
IndentFrom(src, i, depth, needIndent, inStr, nest) ==
    IF i > Len(src) THEN <<>>
    ELSE LET c == src[i] IN
      IF inStr THEN <<c>> \o IndentFrom(src, i + 1, depth, needIndent, c # 34, nest)
      ELSE IF IsSpace(c) THEN
          IF nest = 0 /\ i > 1 /\ \E j \in 1..(i - 1) : ~IsSpace(src[j])
          THEN <<c>> \o IndentFrom(src, i + 1, depth, needIndent, FALSE, nest)
          ELSE IndentFrom(src, i + 1, depth, needIndent, FALSE, nest)
      ELSE LET opening == needIndent /\ c \notin {125, 93}
               d1 == IF opening THEN depth + 1 ELSE depth
               pre == IF opening THEN Newline(d1) ELSE <<>>
               n1 == IF opening THEN FALSE ELSE needIndent
           IN  CASE c \in {123, 91} ->
                      pre \o <<c>> \o IndentFrom(src, i + 1, d1, TRUE, FALSE, nest + 1)
                 [] c = 44 ->
                      pre \o <<c>> \o Newline(d1) \o IndentFrom(src, i + 1, d1, n1, FALSE, nest)
                 [] c = 58 ->
                      pre \o <<c, 32>> \o IndentFrom(src, i + 1, d1, n1, FALSE, nest)
                 [] c \in {125, 93} ->
                      IF needIndent
                      THEN <<c>> \o IndentFrom(src, i + 1, depth, FALSE, FALSE, nest - 1)
                      ELSE Newline(depth - 1) \o <<c>>
                           \o IndentFrom(src, i + 1, depth - 1, FALSE, FALSE, nest - 1)
                 [] OTHER ->
                      pre \o <<c>> \o IndentFrom(src, i + 1, d1, n1, c = 34, nest)

Indent(src) == IndentFrom(src, 1, 0, FALSE, FALSE, 0)

\* dumpAsJson: Encoder.Encode (Marshal and a newline), then json.Indent.
dumpAsJson(obj) == Indent(Marshal(obj) \o <<10>>)

\* json5.Unmarshal, on the JSON subset of JSON5 (no comments, quoted keys).
RECURSIVE SkipSpace(_, _)
SkipSpace(s, i) == IF i <= Len(s) /\ IsSpace(s[i]) THEN SkipSpace(s, i + 1) ELSE i

ParseFail == [ok |-> FALSE, v |-> JNull, i |-> 0]

RECURSIVE StringEnd(_, _)
StringEnd(s, i) == IF i > Len(s) THEN 0 ELSE IF s[i] = 34 THEN i ELSE StringEnd(s, i + 1)

RECURSIVE DigitsEnd(_, _)
DigitsEnd(s, i) == IF i <= Len(s) /\ s[i] \in 48..57 THEN DigitsEnd(s, i + 1) ELSE i

RECURSIVE NumberOf(_)
NumberOf(ds) == IF ds = <<>> THEN 0 ELSE NumberOf(SubSeq(ds, 1, Len(ds) - 1)) * 10 + (ds[Len(ds)] - 48)

HasAt(s, i, lit) == i + Len(lit) - 1 <= Len(s) /\ SubSeq(s, i, i + Len(lit) - 1) = lit

Parsed(v, i) == [ok |-> TRUE, v |-> v, i |-> i]

\* A string from the quote at i to the quote at e, a number from i up to e.
ParseString(s, i, e) ==
    IF e = 0 THEN ParseFail ELSE Parsed(JStr(SubSeq(s, i + 1, e - 1)), e + 1)
ParseNumber(s, i, e) == Parsed(JNum(NumberOf(SubSeq(s, i, e - 1))), e)

RECURSIVE ParseValue(_, _)
RECURSIVE ParseValueAt(_, _)
RECURSIVE ParseMembers(_, _, _)
RECURSIVE ParseMembersAt(_, _, _)
RECURSIVE ParseMemberKey(_, _, _)
RECURSIVE ParseMemberColon(_, _, _, _)
RECURSIVE ParseMemberValue(_, _, _, _)
RECURSIVE ParseMemberNext(_, _, _)
RECURSIVE ParseElements(_, _, _)
RECURSIVE ParseElementsAt(_, _, _)
RECURSIVE ParseElementValue(_, _, _)
RECURSIVE ParseElementNext(_, _, _)

\* A value that starts at or after i0, after space.
ParseValue(s, i0) == ParseValueAt(s, SkipSpace(s, i0))
ParseValueAt(s, i) ==
    IF i > Len(s) THEN ParseFail
    ELSE CASE s[i] = 123 -> ParseMembers(s, i + 1, EmptyMap)
           [] s[i] = 91  -> ParseElements(s, i + 1, <<>>)
           [] s[i] = 34  -> ParseString(s, i, StringEnd(s, i + 1))
           [] s[i] \in 48..57 -> ParseNumber(s, i, DigitsEnd(s, i))
           [] HasAt(s, i, <<116, 114, 117, 101>>) -> Parsed(JBool(TRUE), i + 4)
           [] HasAt(s, i, <<102, 97, 108, 115, 101>>) -> Parsed(JBool(FALSE), i + 5)
           [] HasAt(s, i, <<110, 117, 108, 108>>) -> Parsed(JNull, i + 4)
           [] OTHER -> ParseFail

\* The members of an object after its brace or a comma: the key's string,
\* the colon, the value, then a comma or the closing brace. A later member
\* of the same key wins.
ParseMembers(s, i0, acc) == ParseMembersAt(s, SkipSpace(s, i0), acc)
ParseMembersAt(s, i, acc) ==
    IF i > Len(s) THEN ParseFail
    ELSE IF s[i] = 125 THEN Parsed(JObj(acc), i + 1)
    ELSE IF s[i] # 34 THEN ParseFail
    ELSE ParseMemberKey(s, ParseString(s, i, StringEnd(s, i + 1)), acc)
ParseMemberKey(s, k, acc) ==
    IF ~k.ok THEN ParseFail ELSE ParseMemberColon(s, k.v.s, SkipSpace(s, k.i), acc)
ParseMemberColon(s, key, c, acc) ==
    IF c > Len(s) \/ s[c] # 58 THEN ParseFail
    ELSE ParseMemberValue(s, key, ParseValue(s, c + 1), acc)
ParseMemberValue(s, key, r, acc) ==
    IF ~r.ok THEN ParseFail
    ELSE ParseMemberNext(s, SkipSpace(s, r.i), (key :> r.v) @@ acc)
ParseMemberNext(s, j, acc) ==
    IF j > Len(s) THEN ParseFail
    ELSE IF s[j] = 44 THEN ParseMembers(s, j + 1, acc)
    ELSE IF s[j] = 125 THEN Parsed(JObj(acc), j + 1)
    ELSE ParseFail

\* The elements of an array after its bracket or a comma.
ParseElements(s, i0, acc) == ParseElementsAt(s, SkipSpace(s, i0), acc)
ParseElementsAt(s, i, acc) ==
    IF i > Len(s) THEN ParseFail
    ELSE IF s[i] = 93 THEN Parsed(JArr(acc), i + 1)
    ELSE ParseElementValue(s, ParseValue(s, i), acc)
ParseElementValue(s, r, acc) ==
    IF ~r.ok THEN ParseFail
    ELSE ParseElementNext(s, SkipSpace(s, r.i), Append(acc, r.v))
ParseElementNext(s, j, acc) ==
    IF j > Len(s) THEN ParseFail
    ELSE IF s[j] = 44 THEN ParseElements(s, j + 1, acc)
    ELSE IF s[j] = 93 THEN Parsed(JArr(acc), j + 1)
    ELSE ParseFail

\* Unmarshal of a whole text: one value, and nothing but space after it.
UnmarshalEnd(s, r) ==
    IF r.ok /\ SkipSpace(s, r.i) > Len(s) THEN [ok |-> TRUE, v |-> r.v]
    ELSE [ok |-> FALSE, v |-> JNull]
Unmarshal(s) == UnmarshalEnd(s, ParseValue(s, 1))

\* ------------------------------------------------------------------------
\* mergo.Merge(&settings, obj) on map[string]interface{} (no WithOverride)
\* ------------------------------------------------------------------------

\* mergo's isEmptyValue on an interface{} element: the zero value of its
\* dynamic type (nil, false, 0, "", an empty slice or map).
isEmptyValue(v) ==
    CASE v.t = "null" -> TRUE
      [] v.t = "bool" -> ~v.b
      [] v.t = "num"  -> v.n = 0
      [] v.t = "str"  -> Len(v.s) = 0
      [] v.t = "arr"  -> Len(v.e) = 0
      [] v.t = "obj"  -> DOMAIN v.m = {}

\* deepMerge, case reflect.Map: for every key of src whose element is not
\* nil, a map element is merged into dst's map element in place when both
\* are maps, and then src's element is stored only if dst has no element
\* for the key or dst's element is empty.
RECURSIVE deepMerge(_, _)
deepMerge(dst, src) ==
    [k \in DOMAIN dst \cup {x \in DOMAIN src : src[x].t # "null"} |->
        IF k \notin DOMAIN src \/ src[k].t = "null" THEN dst[k]
        ELSE IF k \notin DOMAIN dst THEN src[k]
        ELSE LET d == IF src[k].t = "obj" /\ dst[k].t = "obj"
                      THEN JObj(deepMerge(dst[k].m, src[k].m))
                      ELSE dst[k]
             IN  IF isEmptyValue(d) THEN src[k] ELSE d]

\* ------------------------------------------------------------------------
\* The Dockerfile synthesizer: data
\* ------------------------------------------------------------------------

\* The number of entries of the descriptor's `extensions`.
MaxExtensions == 2

\* A file path: absolute or not, and its elements.
Path(abs, comps) == [abs |-> abs, comps |-> comps]
NoPath == Path(FALSE, <<>>)

\* filepath.Join(a, b): empty elements are ignored, the rest are joined with
\* the separator and cleaned; a leading separator of b is not special.
filepathJoin(a, b) ==
    LET clean(p) == Path(p.abs, SelectSeq(p.comps, LAMBDA c : c # "."))
    IN  IF a = NoPath THEN clean(b)
        ELSE IF b = NoPath THEN clean(a)
        ELSE clean(Path(a.abs, a.comps \o b.comps))

\* One line of Dockerfile text: fixed text, and for the lines that carry one
\* an extension id (arg) or a base64 payload (b64) between pre and post.
Line(pre, arg, b64, post) == [pre |-> pre, arg |-> arg, b64 |-> b64, post |-> post]
Plain(text) == Line(text, "", <<>>, "")

\* A Go string of Dockerfile text is the sequence of its lines; "" is the
\* single empty line.
EmptyString == <<Plain("")>>

\* strings.Join(elems, "\n")
RECURSIVE stringsJoin(_)
stringsJoin(elems) ==
    IF elems = <<>> THEN EmptyString
    ELSE IF Len(elems) = 1 THEN elems[1]
    ELSE elems[1] \o stringsJoin(Tail(elems))

\* strings.Join(elems, "\n") on byte strings
RECURSIVE bytesJoin(_)
bytesJoin(elems) ==
    IF elems = <<>> THEN <<>>
    ELSE IF Len(elems) = 1 THEN elems[1]
    ELSE elems[1] \o <<10>> \o bytesJoin(Tail(elems))

\* The files of the machine: the project's Dockerfile and the one of
\* TestDockerfile.
ProjectDir == Path(TRUE, <<"proj", ".devcontainer">>)
ProjectDockerfile == Path(TRUE, <<"proj", ".devcontainer", "Dockerfile">>)
TmpDockerfile == Path(TRUE, <<"tmp", "Dockerfile">>)
WorkingDir == Path(TRUE, <<"home">>)
Files ==
    (ProjectDockerfile :>
        <<Plain("FROM mcr.microsoft.com/vscode/devcontainers/go:0-1-bullseye"),
          Plain("RUN go version"), Plain("")>>)
    @@ (TmpDockerfile :> <<Plain("FROM golang:1.12.5")>>)

\* ioutil.ReadFile: a relative path is looked up from the working directory.
ReadFile(path) ==
    LET p == IF path.abs THEN path ELSE filepathJoin(WorkingDir, path)
    IN  IF p \in DOMAIN Files THEN [ok |-> TRUE, data |-> Files[p]]
                              ELSE [ok |-> FALSE, data |-> EmptyString]

CodeServerInstall == "RUN curl -fsSL https://code-server.dev/install.sh | sh"
Entrypoint == "ENTRYPOINT [\"/opt/code-server/entrypoint.sh\"]"

\* Repository.Get(ctx, filename)
NotFound == [ok |-> FALSE, content |-> <<>>]
Found(content) == [ok |-> TRUE, content |-> content]
Get(repo, filename) == repo[filename]
Filenames == {"settings.json", "keybindings.json", "keybindingsMac.json"}

\* ------------------------------------------------------------------------
\* The Dockerfile synthesizer: functions
\* ------------------------------------------------------------------------

\* createEntryScriptCommands: "#!/bin/bash", "set -e", "set -x", the
\* postCreateCommand, and the code-server launch line
\* "code-server --user-data-dir /opt/code-server/.vscode --config
\*  /opt/code-server/config.yml --bind-addr 0.0.0.0:8080".
createEntryScriptCommands(dc) ==
    << <<35, 33, 47, 98, 105, 110, 47, 98, 97, 115, 104>>,
       <<115, 101, 116, 32, 45, 101>>,
       <<115, 101, 116, 32, 45, 120>>,
       dc.PostCreateCommand,
       <<99, 111, 100, 101, 45, 115, 101, 114, 118, 101, 114, 32, 45, 45, 117,
         115, 101, 114, 45, 100, 97, 116, 97, 45, 100, 105, 114, 32, 47, 111,
         112, 116, 47, 99, 111, 100, 101, 45, 115, 101, 114, 118, 101, 114, 47,
         46, 118, 115, 99, 111, 100, 101, 32, 45, 45, 99, 111, 110, 102, 105,
         103, 32, 47, 111, 112, 116, 47, 99, 111, 100, 101, 45, 115, 101, 114,
         118, 101, 114, 47, 99, 111, 110, 102, 105, 103, 46, 121, 109, 108, 32,
         45, 45, 98, 105, 110, 100, 45, 97, 100, 100, 114, 32, 48, 46, 48, 46,
         48, 46, 48, 58, 56, 48, 56, 48>> >>

createEntryScript(dc) ==
    LET entryScriptContents == bytesJoin(createEntryScriptCommands(dc))
        b64EntryScriptContents == EncodeToString(entryScriptContents)
    IN  [err |-> "nil",
         result |-> stringsJoin(<<
            <<Plain("RUN mkdir -p /opt/code-server")>>,
            <<Line("RUN echo '", "", b64EntryScriptContents,
                   "' | base64 -d > /opt/code-server/entrypoint.sh")>>,
            <<Plain("RUN chmod +x /opt/code-server/entrypoint.sh")>> >>)]

\* json5.Unmarshal(content, &obj) with obj a map[string]interface{}: an
\* object fills the map, null leaves it nil, anything else is an error.
UnmarshalMap(content) ==
    LET r == Unmarshal(content) IN
    IF r.ok /\ r.v.t = "obj" THEN [ok |-> TRUE, m |-> r.v.m]
    ELSE IF r.ok /\ r.v.t = "null" THEN [ok |-> TRUE, m |-> EmptyMap]
    ELSE [ok |-> FALSE, m |-> EmptyMap]

\* createSettingJson with a failed fetch or decode leaving nothing of the
\* descriptor's settings.
mergedSettings_ResetOnFailure(settings, got) ==
    IF got.ok /\ UnmarshalMap(got.content).ok
    THEN deepMerge(settings, UnmarshalMap(got.content).m)
    ELSE EmptyMap

\* createSettingJson, lines 69-80: `settings` is the descriptor's own map
\* unless that is nil; a fetch or decode failure is logged and leaves it as
\* it is, otherwise the remote object is merged into it.
mergedSettings(settings, got) ==
    IF got.ok /\ UnmarshalMap(got.content).ok
    THEN deepMerge(settings, UnmarshalMap(got.content).m)
    ELSE settings

\* createSettingJson, lines 82-92: the dump, its base64, the two commands.
\* The merge wrote into the map the caller holds when that was not nil.
settingJsonCommands(dc, merged) ==
    [err |-> "nil",
     result |-> stringsJoin(<<
        <<Plain("RUN mkdir -p /opt/code-server/.vscode/User")>>,
        <<Line("RUN echo '", "", EncodeToString(dumpAsJson(JObj(merged))),
               "' | base64 -d > /opt/code-server/.vscode/User/settings.json")>> >>),
     settings |-> IF dc.Settings.nil THEN dc.Settings
                  ELSE [nil |-> FALSE, m |-> merged],
     fetched |-> <<"settings.json">>]

createSettingJson(dc, repo) ==
    settingJsonCommands(dc,
        mergedSettings(IF dc.Settings.nil THEN EmptyMap ELSE dc.Settings.m,
                       Get(repo, "settings.json")))

\* A KeyBinding struct; its json tags, in field order, are "key", "command",
\* "when".
KeyBindingFields == << <<107, 101, 121>>,
                       <<99, 111, 109, 109, 97, 110, 100>>,
                       <<119, 104, 101, 110>> >>

\* json5.Unmarshal(content, &obj) with obj a []KeyBinding: an array of
\* objects (or nulls) whose tagged fields, where present, are strings or
\* null; null for the whole leaves the slice nil.
KeyBindingsOf(r) ==
    LET fieldOk(e, f) == f \notin DOMAIN e.m \/ e.m[f].t \in {"str", "null"}
        elemOk(e) == \/ e.t = "null"
                     \/ /\ e.t = "obj"
                        /\ \A i \in 1..3 : fieldOk(e, KeyBindingFields[i])
        field(e, f) == IF e.t = "obj" /\ f \in DOMAIN e.m /\ e.m[f].t = "str"
                       THEN e.m[f].s ELSE <<>>
    IN  IF r.ok /\ r.v.t = "null" THEN [ok |-> TRUE, nil |-> TRUE, list |-> <<>>]
        ELSE IF r.ok /\ r.v.t = "arr" /\ \A i \in 1..Len(r.v.e) : elemOk(r.v.e[i])
        THEN [ok |-> TRUE, nil |-> FALSE,
              list |-> [i \in 1..Len(r.v.e) |->
                           [j \in 1..3 |-> field(r.v.e[i], KeyBindingFields[j])]]]
        ELSE [ok |-> FALSE, nil |-> TRUE, list |-> <<>>]
UnmarshalKeyBindings(content) == KeyBindingsOf(Unmarshal(content))

\* json.Marshal of a []KeyBinding: struct fields in declaration order; a nil
\* slice is null.
RECURSIVE MarshalKeyBindingList(_)
MarshalKeyBindingList(list) ==
    IF list = <<>> THEN <<>>
    ELSE LET kb == list[1]
             member(j) == <<34>> \o KeyBindingFields[j] \o <<34, 58, 34>> \o kb[j] \o <<34>>
         IN  <<123>> \o member(1) \o <<44>> \o member(2) \o <<44>> \o member(3) \o <<125>>
             \o (IF Len(list) > 1 THEN <<44>> ELSE <<>>)
             \o MarshalKeyBindingList(Tail(list))

dumpKeyBindingsAsJson(obj) ==
    Indent((IF obj.nil THEN <<110, 117, 108, 108>>
            ELSE <<91>> \o MarshalKeyBindingList(obj.list) \o <<93>>) \o <<10>>)

\* createKeybindingsJson: the loop over keybindingsJsonFilenames, in the
\* array's order; the first file that is fetched, not empty and decodes
\* gives the result.
keybindingsJsonFilenames == <<"keybindings.json", "keybindingsMac.json">>

keybindingsJsonCommands(obj) ==
    stringsJoin(<<
        <<Plain("RUN mkdir -p /opt/code-server/.vscode/User")>>,
        <<Line("RUN echo '", "", EncodeToString(dumpKeyBindingsAsJson(obj)),
               "' | base64 -d > /opt/code-server/.vscode/User/keybindings.json")>> >>)

RECURSIVE keybindingsLoop(_, _, _)
RECURSIVE keybindingsLoopBody(_, _, _, _, _)
keybindingsLoop(repo, i, log) ==
    IF i > Len(keybindingsJsonFilenames)
    THEN [err |-> "nil", result |-> EmptyString, fetched |-> log, used |-> ""]
    ELSE keybindingsLoopBody(repo, i, Append(log, keybindingsJsonFilenames[i]),
                             Get(repo, keybindingsJsonFilenames[i]),
                             UnmarshalKeyBindings(Get(repo, keybindingsJsonFilenames[i]).content))
\* keybindingsLoopBody with `return` where the code has `continue`: a
\* rejected candidate ends the loop.
keybindingsLoopBody_NoFallback(repo, i, log, got, obj) ==
    IF ~got.ok \/ Len(got.content) = 0 \/ ~obj.ok
    THEN [err |-> "nil", result |-> EmptyString, fetched |-> log, used |-> ""]
    ELSE [err |-> "nil", result |-> keybindingsJsonCommands(obj),
          fetched |-> log, used |-> keybindingsJsonFilenames[i]]

keybindingsLoopBody(repo, i, log, got, obj) ==
    IF ~got.ok \/ Len(got.content) = 0 \/ ~obj.ok
    THEN keybindingsLoop(repo, i + 1, log)
    ELSE [err |-> "nil", result |-> keybindingsJsonCommands(obj),
          fetched |-> log, used |-> keybindingsJsonFilenames[i]]

createKeybindingsJson(dc, repo) == keybindingsLoop(repo, 1, <<>>)

modifyCodeServerDirPermissions(dc) ==
    [err |-> "nil", result |-> <<Plain("RUN chmod -R o+wr /opt/code-server/")>>]

\* The entries of a list without those that repeat an earlier one.
RECURSIVE Distinct(_)
Distinct(list) ==
    IF list = <<>> THEN <<>>
    ELSE IF \E i \in 1..(Len(list) - 1) : list[i] = list[Len(list)]
    THEN Distinct(SubSeq(list, 1, Len(list) - 1))
    ELSE Append(Distinct(SubSeq(list, 1, Len(list) - 1)), list[Len(list)])

\* installExtensions with one command per distinct extension id.
installExtensions_Deduplicated(dc) ==
    LET commands == [i \in 1..Len(Distinct(dc.Extensions)) |->
                        <<Line("RUN code-server --install-extension ", Distinct(dc.Extensions)[i], <<>>,
                               " --extensions-dir /opt/code-server/.vscode/extensions/")>>]
    IN  [err |-> "nil", result |-> stringsJoin(commands)]

installExtensions(dc) ==
    LET commands == [i \in 1..Len(dc.Extensions) |->
                        <<Line("RUN code-server --install-extension ", dc.Extensions[i], <<>>,
                               " --extensions-dir /opt/code-server/.vscode/extensions/")>>]
    IN  [err |-> "nil", result |-> stringsJoin(commands)]

createConfigYaml(dc) ==
    [err |-> "nil",
     result |-> <<Plain("RUN echo \"auth: none\" > /opt/code-server/config.yml")>>]

\* `if err != nil { log.Print(err); x = "" }`
OrEmpty(r) == IF r.err # "nil" THEN EmptyString ELSE r.result

\* WrapDockerFile's strings.Join with the sections in the order the helpers
\* are called in, not in the order of its literal.
joinSections_CallOrder(dockerfile, entryScript, extensions, permission, configYaml, settingJson, keybindingsJson) ==
    stringsJoin(<<dockerfile, <<Plain(CodeServerInstall)>>, entryScript, extensions,
                  permission, configYaml, settingJson, keybindingsJson,
                  <<Plain(Entrypoint)>> >>)

\* WrapDockerFile, lines 188-203: strings.Join of the sections with "\n".
joinSections(dockerfile, entryScript, extensions, permission, configYaml, settingJson, keybindingsJson) ==
    stringsJoin(<<dockerfile, <<Plain(CodeServerInstall)>>, settingJson, keybindingsJson,
                  entryScript, extensions, configYaml, permission,
                  <<Plain(Entrypoint)>> >>)

\* What WrapDockerFile returns and what the call did besides (the
\* descriptor's settings map after it, the fetches made), from what
\* ReadFile and the helpers returned.
WrapDockerFileReturn(dc, dockerfile, entryScript, extensions, permission, configYaml, settingJson, keybindingsJson) ==
    IF ~dockerfile.ok
    THEN [err |-> "ReadFile", content |-> EmptyString,
          settings |-> dc.Settings, fetched |-> <<>>]
    ELSE IF entryScript.err # "nil"
    THEN [err |-> entryScript.err, content |-> EmptyString,
          settings |-> dc.Settings, fetched |-> <<>>]
    ELSE [err |-> "nil",
          content |-> joinSections(dockerfile.data, entryScript.result,
                                   OrEmpty(extensions), OrEmpty(permission),
                                   OrEmpty(configYaml), OrEmpty(settingJson),
                                   OrEmpty(keybindingsJson)),
          settings |-> settingJson.settings,
          fetched |-> settingJson.fetched \o keybindingsJson.fetched]

\* WrapDockerFile: the base Dockerfile is read, then the helpers are called
\* in this order. An error of ReadFile or createEntryScript is returned; an
\* error of a later helper is logged and its section is empty.
WrapDockerFile(dc, repo) ==
    WrapDockerFileReturn(dc,
        ReadFile(filepathJoin(dc.DirPath, dc.Build.Dockerfile)),
        createEntryScript(dc),
        installExtensions(dc),
        modifyCodeServerDirPermissions(dc),
        createConfigYaml(dc),
        createSettingJson(dc, repo),
        createKeybindingsJson(dc, repo))

\* ------------------------------------------------------------------------
\* The Dockerfile synthesizer: one call
\* ------------------------------------------------------------------------

NoOut == [err |-> "none", content |-> EmptyString]
NoCmd == [name |-> "", args |-> <<>>]

\* The caller's state after WrapDockerFile returned w.
Returned(w) ==
    /\ out' = [err |-> w.err, content |-> w.content]
    /\ devcontainer' = [devcontainer EXCEPT !.Settings = w.settings]
    /\ fetched' = fetched \o w.fetched
    /\ spc' = "returned"
    /\ UNCHANGED <<loaded, repository, buildCmd, runCmd>>

\* A call of WrapDockerFile(devcontainer, repository) and its return.
WrapDockerFileCall ==
    /\ spc = "ready"
    /\ Returned(WrapDockerFile(devcontainer, repository))
    /\ UNCHANGED <<lvars, evars>>

SNext == WrapDockerFileCall

\* The concatenation of a sequence of sequences.
RECURSIVE stringsFlatten(_)
stringsFlatten(seqs) ==
    IF seqs = <<>> THEN <<>> ELSE seqs[1] \o stringsFlatten(Tail(seqs))

\* The orders in which a map of n entries can be ranged over.
Orders(n) == {o \in [1..n -> 1..n] : \A i, j \in 1..n : i # j => o[i] # o[j]}

\* ------------------------------------------------------------------------
\* BuildImage and NewContainerContext: the docker commands
\* ------------------------------------------------------------------------

\* An argument of a docker command: a Go string given as text, or as bytes
\* when the code computes it byte by byte.
Text(s) == [text |-> s, bytes |-> <<>>]
Bytes(b) == [text |-> "", bytes |-> b]

\* strings.ToLower and strings.ReplaceAll(name, " ", "_") on one byte of an
\* ASCII name.
ToLower(b) == IF b \in 65..90 THEN b + 32 ELSE b
ReplaceSpace(b) == IF b = 32 THEN 95 ELSE b

\* getImageTag without strings.ToLower.
getImageTag_NotLowered(dc) ==
    [i \in 1..Len(dc.Name) |-> ReplaceSpace(dc.Name[i])]
    \o <<95, 99, 111, 100, 101, 95, 99, 111, 100, 101, 114, 95, 115, 101, 114, 118, 101, 114>>

\* getImageTag: the lowered name with "_" for " ", then "_code_coder_server".
getImageTag(dc) ==
    [i \in 1..Len(dc.Name) |-> ReplaceSpace(ToLower(dc.Name[i]))]
    \o <<95, 99, 111, 100, 101, 95, 99, 111, 100, 101, 114, 95, 115, 101, 114, 118, 101, 114>>

\* getBuildContext
getBuildContext(dc) ==
    IF dc.Build.Context.abs THEN dc.Build.Context
    ELSE filepathJoin(dc.DirPath, dc.Build.Context)

\* A path as the string Go holds.
RECURSIVE JoinComps(_)
JoinComps(comps) ==
    IF Len(comps) = 0 THEN ""
    ELSE IF Len(comps) = 1 THEN comps[1]
    ELSE comps[1] \o "/" \o JoinComps(Tail(comps))
PathString(p) ==
    IF p.comps = <<>> THEN (IF p.abs THEN "/" ELSE ".")
    ELSE (IF p.abs THEN "/" ELSE "") \o JoinComps(p.comps)

\* filepath.Dir and filepath.Base
Dir(p) == IF p.comps = <<>> THEN p ELSE Path(p.abs, SubSeq(p.comps, 1, Len(p.comps) - 1))
Base(p) == IF p.comps = <<>> THEN PathString(p) ELSE p.comps[Len(p.comps)]

\* BuildImage, lines 221-228: build -t tag -f -, a --build-arg pair for each
\* entry of build.args in the order `order` the map is ranged over, then the
\* context.
buildArgs(dc, order) ==
    <<Text("build"), Text("-t"), Bytes(getImageTag(dc)), Text("-f"), Text("-")>>
    \o stringsFlatten([i \in 1..Len(order) |->
           <<Text("--build-arg"),
             Text(dc.Build.Args[order[i]][1] \o "=" \o dc.Build.Args[order[i]][2])>>])
    \o <<Text(PathString(getBuildContext(dc)))>>

\* A template of interpolate: literal text and ${name} expansions.
Lit(s) == [k |-> "lit", s |-> s]
Var(s) == [k |-> "var", s |-> s]

\* getMapEnv
getMapEnv(dc) ==
    [localWorkspaceFolder |-> PathString(Dir(dc.DirPath)),
     localWorkspaceFolderBasename |-> Base(Dir(dc.DirPath))]

\* A piece of a template that interpolate's parser rejects: a "${" that is
\* not closed.
Unterminated == [k |-> "bad", s |-> "${"]

\* The error of interpolate.Interpolate(env, template). The library is an
\* import of part_001 and its source is not part of the repository; what is
\* modelled is its documented behaviour: the parser's error for a template
\* it rejects, and no error for the plain expansion ${name} of a variable
\* the Env does not hold.
interpolateError(template) == \E i \in DOMAIN template : template[i].k = "bad"

\* interpolate.Interpolate(env, template) for templates of literals and
\* plain expansions: a variable the Env does not hold expands to "".
RECURSIVE Interpolate(_, _)
Interpolate(env, template) ==
    IF template = <<>> THEN ""
    ELSE (IF template[1].k = "lit" THEN template[1].s
          ELSE IF template[1].s \in DOMAIN env THEN env[template[1].s]
          ELSE "")
         \o Interpolate(env, Tail(template))

\* "source=${localWorkspaceFolder},target=/workspace/${localWorkspaceFolderBasename},type=bind"
DefaultWorkspaceMount ==
    <<Lit("source="), Var("localWorkspaceFolder"), Lit(",target=/workspace/"),
      Var("localWorkspaceFolderBasename"), Lit(",type=bind")>>

\* "/workspace/${localWorkspaceFolderBasename}"
DefaultWorkspaceFolder == <<Lit("/workspace/"), Var("localWorkspaceFolderBasename")>>

getWorkspaceBinding(dc) ==
    Interpolate(getMapEnv(dc),
                IF dc.WorkspaceMount = <<>> THEN DefaultWorkspaceMount ELSE dc.WorkspaceMount)

getWorkspaceFolder(dc) ==
    Interpolate(getMapEnv(dc),
                IF dc.WorkspaceFolder = <<>> THEN DefaultWorkspaceFolder ELSE dc.WorkspaceFolder)

\* NewContainerContext with the forwardPorts loop before the runArgs loop.
containerArgs_PortsFirst(tag, dc, serviceURL, name) ==
    <<Text("run"), Text("--rm"),
      Text("-p"), Text("0.0.0.0:" \o ToString(serviceURL.Port) \o ":8080"),
      Text("--name"), Text(name)>>
    \o <<Text("--mount"), Text(getWorkspaceBinding(dc))>>
    \o <<Text("-w"), Text(serviceURL.WorkspaceFolder)>>
    \o stringsFlatten([i \in 1..Len(dc.ForwardPorts) |-> <<Text("-p"), Text(dc.ForwardPorts[i])>>])
    \o [i \in 1..Len(dc.RunArgs) |-> Text(dc.RunArgs[i])]
    \o (IF dc.RemoteUser # "" THEN <<Text("-u"), Text(dc.RemoteUser)>> ELSE <<>>)
    \o <<tag>>

\* NewContainerContext, lines 345-366: the argument list of docker run.
containerArgs(tag, dc, serviceURL, name) ==
    <<Text("run"), Text("--rm"),
      Text("-p"), Text("0.0.0.0:" \o ToString(serviceURL.Port) \o ":8080"),
      Text("--name"), Text(name)>>
    \o <<Text("--mount"), Text(getWorkspaceBinding(dc))>>
    \o <<Text("-w"), Text(serviceURL.WorkspaceFolder)>>
    \o [i \in 1..Len(dc.RunArgs) |-> Text(dc.RunArgs[i])]
    \o stringsFlatten([i \in 1..Len(dc.ForwardPorts) |-> <<Text("-p"), Text(dc.ForwardPorts[i])>>])
    \o (IF dc.RemoteUser # "" THEN <<Text("-u"), Text(dc.RemoteUser)>> ELSE <<>>)
    \o <<tag>>

\* BuildImage after WrapDockerFile returned without error: the tag, the
\* context and the arguments of docker build.
BuildImageCommand ==
    /\ spc = "returned"
    /\ out.err = "nil"
    /\ \E order \in Orders(Len(devcontainer.Build.Args)) :
          buildCmd' = [name |-> "docker", args |-> buildArgs(devcontainer, order)]
    /\ spc' = "built"
    /\ UNCHANGED <<devcontainer, loaded, repository, fetched, out, runCmd>>
    /\ UNCHANGED <<lvars, evars>>

\* GetServiceURL's result and NewContainerContext(tag, devcontainer,
\* serviceURL): the random name and the arguments of docker run.
NewContainerContextCall ==
    /\ spc = "built"
    /\ \E n \in Names, port \in Ports :
          runCmd' = [name |-> n,
                     args |-> containerArgs(buildCmd.args[3], devcontainer,
                                      [Host |-> "devbox", Port |-> port,
                                       WorkspaceFolder |-> getWorkspaceFolder(devcontainer)],
                                      n)]
    /\ spc' = "context"
    /\ UNCHANGED <<devcontainer, loaded, repository, fetched, out, buildCmd>>
    /\ UNCHANGED <<lvars, evars>>

CNext ==
    \/ WrapDockerFileCall
    \/ BuildImageCommand
    \/ NewContainerContextCall

\* ------------------------------------------------------------------------
\* The inputs of the synthesizer
\* ------------------------------------------------------------------------

Maps(K, V) == UNION {[D -> V] : D \in SUBSET K}
SeqsUpTo(S, n) == UNION {[1..k -> S] : k \in 0..n}

\* Settings keys "a", "b"; nested keys "p", "q".
SettingKeys == {<<97>>, <<98>>}
DescriptorValues ==
    {JBool(FALSE), JBool(TRUE), JNum(0), JStr(<<>>), JStr(<<120>>),
     JObj(EmptyMap), JObj(<<112>> :> JBool(TRUE))}
RemoteValues ==
    DescriptorValues \cup {JNull, JNum(7), JObj(<<113>> :> JBool(TRUE))}

NilSettings == [nil |-> TRUE, m |-> EmptyMap]
DescriptorSettings ==
    {NilSettings} \cup {[nil |-> FALSE, m |-> m] : m \in Maps(SettingKeys, DescriptorValues)}
RemoteSettings == Maps(SettingKeys, RemoteValues)

\* Contents that are not a settings object: nothing, "{", {"a":, [], x,
\* "x", 7, null.
MalformedContents ==
    {<<>>, <<123>>, <<123, 34, 97, 34, 58>>, <<91, 93>>, <<120>>,
     <<34, 120, 34>>, <<55>>, <<110, 117, 108, 108>>}
FailingResponses == {NotFound} \cup {Found(c) : c \in MalformedContents}

\* Keybindings contents: [{"key":"ctrl+k","command":"x"}] and
\* [{"key":"cmd+k","command":"y","when":"z"}].
KeybindingsGeneric ==
    <<91, 123, 34, 107, 101, 121, 34, 58, 34, 99, 116, 114, 108, 43, 107, 34, 44,
      34, 99, 111, 109, 109, 97, 110, 100, 34, 58, 34, 120, 34, 125, 93>>
KeybindingsMac ==
    <<91, 123, 34, 107, 101, 121, 34, 58, 34, 99, 109, 100, 43, 107, 34, 44,
      34, 99, 111, 109, 109, 97, 110, 100, 34, 58, 34, 121, 34, 44,
      34, 119, 104, 101, 110, 34, 58, 34, 122, 34, 125, 93>>
KeybindingsResponses ==
    {NotFound, Found(<<>>), Found(<<123, 125>>), Found(KeybindingsGeneric),
     Found(KeybindingsMac)}

\* "go version"
GoVersion == <<103, 111, 32, 118, 101, 114, 115, 105, 111, 110>>

\* A DevContainer; the fields that are not parameters are as in
\* TestDockerfile: the name "test", the build context ".", the rest empty.
Descriptor(dir, dockerfile, settings, extensions, post) ==
    [DirPath |-> dir,
     Name |-> <<116, 101, 115, 116>>,
     Build |-> [Dockerfile |-> dockerfile, Context |-> Path(FALSE, <<".">>), Args |-> <<>>],
     RunArgs |-> <<>>,
     WorkspaceMount |-> <<>>,
     WorkspaceFolder |-> <<>>,
     Settings |-> settings,
     Extensions |-> extensions,
     ForwardPorts |-> <<>>,
     PostCreateCommand |-> post,
     RemoteUser |-> ""]

\* The descriptor and repository of TestDockerfile.
TestDescriptor == Descriptor(NoPath, TmpDockerfile, NilSettings, <<>>, <<>>)
EmptyRepository == [f \in Filenames |-> NotFound]

SStart(dc, repo) ==
    /\ devcontainer = dc
    /\ loaded = dc
    /\ repository = repo
    /\ fetched = <<>>
    /\ out = NoOut
    /\ spc = "ready"
    /\ buildCmd = NoCmd
    /\ runCmd = NoCmd

\* Every descriptor settings object against every answer of the repository
\* for settings.json; the rest as in TestDockerfile.
SInitSettings ==
    \E s \in DescriptorSettings,
       r \in FailingResponses \cup {Found(Marshal(JObj(m))) : m \in RemoteSettings} :
        SStart(Descriptor(NoPath, TmpDockerfile, s, <<>>, <<>>),
               [EmptyRepository EXCEPT !["settings.json"] = r])

\* Descriptors that differ in where the base Dockerfile is, in extensions,
\* postCreateCommand and settings, against repositories that differ in all
\* three files.
SInitSynth ==
    \E dir \in {NoPath, ProjectDir},
       dockerfile \in {Path(FALSE, <<"Dockerfile">>), TmpDockerfile,
                       Path(FALSE, <<".", "Dockerfile">>)},
       s \in {NilSettings, [nil |-> FALSE, m |-> (<<97>> :> JBool(TRUE))]},
       exts \in SeqsUpTo({"golang.Go", "ms-python.python"}, MaxExtensions),
       post \in {<<>>, GoVersion},
       rs \in {NotFound, Found(Marshal(JObj(<<98>> :> JNum(7))))},
       k1 \in KeybindingsResponses, k2 \in KeybindingsResponses :
        SStart(Descriptor(dir, dockerfile, s, exts, post),
               [f \in Filenames |->
                   IF f = "settings.json" THEN rs
                   ELSE IF f = "keybindings.json" THEN k1 ELSE k2])

\* The length of the descriptor names.
MaxNameLen == 2

\* Names over "A", "a", " " and "1".
DescriptorNames == SeqsUpTo({65, 97, 32, 49}, MaxNameLen)

\* Descriptors that differ in name only.
NameDescriptors ==
    {[Descriptor(ProjectDir, Path(FALSE, <<"Dockerfile">>), NilSettings, <<>>, <<>>)
        EXCEPT !.Name = n] : n \in DescriptorNames}

\* Descriptors that differ in where they and their Dockerfile are, and in
\* the fields the docker commands are built from.
CommandDescriptors ==
    {[Descriptor(dir, dockerfile, NilSettings, <<>>, <<>>)
        EXCEPT !.Build.Context = context, !.Build.Args = args, !.RunArgs = run,
               !.ForwardPorts = ports, !.RemoteUser = user, !.WorkspaceMount = mount] :
        dir \in {NoPath, ProjectDir},
        dockerfile \in {Path(FALSE, <<"Dockerfile">>), TmpDockerfile},
        context \in {NoPath, Path(FALSE, <<".">>), Path(FALSE, <<"app">>), Path(TRUE, <<"ctx">>)},
        args \in {<<>>, << <<"GO", "1.21">> >>, << <<"GO", "1.21">>, <<"ENV", "dev">> >>},
        run \in {<<>>, <<"--privileged">>, <<"--cap-add", "SYS_PTRACE">>},
        ports \in {<<>>, <<"3000">>, <<"3000", "5432:5432">>},
        user \in {"", "vscode"},
        mount \in {<<>>, <<Lit("source="), Var("localWorkspaceFolder"),
                          Lit(",target=/src,type=bind")>>}}

\* Every such descriptor against the repository of TestDockerfile.
SInitCommands ==
    \E dc \in NameDescriptors \cup CommandDescriptors : SStart(dc, EmptyRepository)

\* The synthesizer at rest, for the runs of the launcher alone.
SIdle ==
    /\ devcontainer = TestDescriptor
    /\ loaded = TestDescriptor
    /\ repository = EmptyRepository
    /\ fetched = <<>>
    /\ out = NoOut
    /\ spc = "idle"
    /\ buildCmd = NoCmd
    /\ runCmd = NoCmd

\* ------------------------------------------------------------------------
\* The launcher with its descriptor: main calling the synthesizer, the
\* address resolution and NewContainerContext
\* ------------------------------------------------------------------------

workspaceFolderTemplate(dc) ==
    IF dc.WorkspaceFolder = <<>> THEN DefaultWorkspaceFolder ELSE dc.WorkspaceFolder

workspaceMountTemplate(dc) ==
    IF dc.WorkspaceMount = <<>> THEN DefaultWorkspaceMount ELSE dc.WorkspaceMount

\* BuildImage, first half: the call of WrapDockerFile(devcontainer,
\* repository); its error is returned.
BuildImageWrapDockerFile ==
    /\ pc = "wrapDockerFile"
    /\ Returned(WrapDockerFile(devcontainer, repository))
    /\ Outcome(out'.err = "nil", "noDockerfile", "buildStart", "WrapDockerFile")
    /\ UNCHANGED <<engineCalls, buildProc, runProc, killProc, listener, url, ctx,
                   banner, notified, sigChan, sigSent, sigAfterStart, runResult>>
    /\ UNCHANGED <<evars, otherBound>>

\* GetServiceURL, last step: getWorkspaceFolder(devcontainer) and its error.
ResolveWorkspaceFolder ==
    /\ pc = "getWorkspaceFolder"
    /\ IF interpolateError(workspaceFolderTemplate(devcontainer))
       THEN /\ Fail("interpolate workspaceFolder")
            /\ url' = NoURL
       ELSE /\ Goto("newContext")
            /\ url' = [url EXCEPT !.WorkspaceFolder = getWorkspaceFolder(devcontainer)]
    /\ UNCHANGED <<engineCalls, buildProc, runProc, killProc, listener,
                   ctx, banner, notified, sigChan, sigSent, sigAfterStart, runResult, met>>
    /\ UNCHANGED <<svars, evars, otherBound>>

\* A variant of NewContainerContext that publishes a port of its own choice
\* instead of the port of the service URL it was given.
CreateContainerContext_OwnPort ==
    /\ pc = "newContext"
    /\ \E n \in Names :
          IF interpolateError(workspaceMountTemplate(devcontainer))
          THEN /\ Fail("interpolate workspaceMount")
               /\ ctx' = NoCtx
               /\ UNCHANGED runCmd
          ELSE /\ Goto("banner")
               /\ ctx' = [name |-> n, port |-> url.Port,
                          workdir |-> url.WorkspaceFolder]
               /\ \E p \in Ports \ {url.Port} :
                     runCmd' = [name |-> n,
                                args |-> containerArgs(Bytes(getImageTag(devcontainer)),
                                                       devcontainer,
                                                       [url EXCEPT !.Port = p], n)]
    /\ UNCHANGED <<engineCalls, buildProc, runProc, killProc, listener, url,
                   banner, notified, sigChan, sigSent, sigAfterStart, runResult, met>>
    /\ UNCHANGED <<devcontainer, loaded, repository, fetched, out, spc, buildCmd>>
    /\ UNCHANGED <<evars, otherBound>>

\* NewContainerContext(tag, devcontainer, url): the random name, the
\* workspace binding and its error, the argument list of docker run.
CreateContainerContext ==
    /\ pc = "newContext"
    /\ \E n \in Names :
          IF interpolateError(workspaceMountTemplate(devcontainer))
          THEN /\ Fail("interpolate workspaceMount")
               /\ ctx' = NoCtx
               /\ UNCHANGED runCmd
          ELSE /\ Goto("banner")
               /\ ctx' = [name |-> n, port |-> url.Port,
                          workdir |-> url.WorkspaceFolder]
               /\ runCmd' = [name |-> n,
                             args |-> containerArgs(Bytes(getImageTag(devcontainer)),
                                                    devcontainer, url, n)]
    /\ UNCHANGED <<engineCalls, buildProc, runProc, killProc, listener, url,
                   banner, notified, sigChan, sigSent, sigAfterStart, runResult, met>>
    /\ UNCHANGED <<devcontainer, loaded, repository, fetched, out, spc, buildCmd>>
    /\ UNCHANGED <<evars, otherBound>>

\* Another process of the host binds a port that nothing holds.
OtherProcessBinds ==
    /\ \E p \in Ports \ otherBound :
          /\ ~(listener = "open" /\ url.Port = p)
          /\ otherBound' = otherBound \cup {p}
    /\ UNCHANGED <<pc, mainErr, exitStatus, reported, engineCalls, buildProc,
                   runProc, killProc, listener, url, ctx, banner, notified,
                   sigChan, sigSent, sigAfterStart, runResult, met>>
    /\ UNCHANGED <<svars, evars>>

LaunchNext ==
    \/ CheckArgs
    \/ StatProject
    \/ StatDevcontainer
    \/ ParseJsonStep
    \/ GistNew
    \/ BuildImageWrapDockerFile
    \/ BuildImageStart
    \/ BuildImageReturn
    \/ GetHost
    \/ GetPortListen
    \/ GetPortClose
    \/ ResolveWorkspaceFolder
    \/ CreateContainerContext
    \/ PrettyUrlPrint
    \/ RunStart
    \/ WaitForSignalNotify
    \/ WaitForSignalReceive
    \/ StopStart
    \/ StopReturn
    \/ RunDeferredWait
    \/ MainAfterRun
    \/ BuildProcExit
    \/ KillProcExit
    \/ RunProcExit
    \/ Signal
    \/ OtherProcessBinds

\* Descriptors in /proj/.devcontainer that differ in the workspaceFolder and
\* workspaceMount templates: absent, with a variable of getMapEnv, with
\* another variable, and not closed; and one whose Dockerfile is missing.
FolderTemplates ==
    {<<>>,
     <<Lit("/src/"), Var("localWorkspaceFolderBasename")>>,
     <<Lit("/src/"), Var("containerWorkspaceFolder")>>,
     <<Lit("/src/"), Unterminated>>}

MountTemplates ==
    {<<>>,
     <<Lit("source="), Var("localWorkspaceFolder"), Lit(",target=/src,type=bind")>>,
     <<Lit("source="), Var("localEnvHome"), Lit(",target=/src,type=bind")>>,
     <<Lit("source="), Unterminated>>}

LaunchDescriptors ==
    {[Descriptor(ProjectDir, Path(FALSE, <<"Dockerfile">>), NilSettings, <<>>, <<>>)
        EXCEPT !.WorkspaceFolder = f, !.WorkspaceMount = m] :
        f \in FolderTemplates, m \in MountTemplates}
    \cup {Descriptor(ProjectDir, Path(FALSE, <<"missing">>), NilSettings, <<>>, <<>>)}

SInitLaunch ==
    \E dc \in LaunchDescriptors,
       k1 \in {NotFound, Found(KeybindingsGeneric)},
       k2 \in {NotFound, Found(KeybindingsMac)} :
        SStart(dc, [EmptyRepository EXCEPT !["keybindings.json"] = k1,
                                           !["keybindingsMac.json"] = k2])

\* ------------------------------------------------------------------------
\* entrypoint.sh: the setup.d tree and the state file
\* ------------------------------------------------------------------------

\* The number of invocations of entrypoint.sh in one container.
MaxRuns == 2

\* A script or folder is named by its path below setup.d, one component per
\* element; basename is the last component.
basename(p) == p[Len(p)]

File(p) == [kind |-> "file", path |-> p, scripts |-> <<>>]
Subfolder(p, ss) == [kind |-> "dir", path |-> p, scripts |-> ss]

SystemInit == <<"10-system", "01-init.sh">>
InstallNode == <<"10-system", "50-install", "install-node.sh">>
InstallPython == <<"10-system", "50-install", "install-python.sh">>
SystemVerify == <<"10-system", "90-verify.sh">>
ProjectInit == <<"20-project", "01-init.sh">>

\* The folders of setup.d in glob order, each with its items as `sort` leaves
\* them: executable *.sh files and subfolders.  The two 01-init.sh are
\* different files with the same name.
SetupFolders ==
    << [name |-> "10-system",
        items |-> << File(SystemInit),
                     Subfolder(<<"10-system", "50-install">>,
                               <<InstallNode, InstallPython>>),
                     File(SystemVerify) >>],
       [name |-> "20-project",
        items |-> << File(ProjectInit) >>] >>

\* The <script>.resources file next to a script: the resources it names.
Resources(script) ==
    IF script \in {InstallNode, InstallPython}
    THEN {"package-manager", "network", "filesystem"}
    ELSE {}

SequentialScripts == {SystemInit, SystemVerify, ProjectInit}
ParallelScripts == {InstallNode, InstallPython}
Scripts == SequentialScripts \cup ParallelScripts

\* What `bash script` can exit with.
ScriptCodes == {0, 1}

NoFile == [exists |-> FALSE]

\* init_state_management: the state file is written only when it is absent.
FreshState ==
    [exists |-> TRUE, started_at |-> 0, completed_folders |-> <<>>,
     failed_folders |-> <<>>, completed_scripts |-> <<>>,
     failed_scripts |-> <<>>, status |-> "fresh"]

init_state_management(file) == IF file.exists THEN file ELSE FreshState

\* update_state with jq: `.[$key] = $value` of what was read.
update_state(file, key, value) == [file EXCEPT ![key] = value]

\* add_to_completed with jq: `.[$key] += [$name]` of what was read.
add_to_completed(file, type, name) ==
    [file EXCEPT !["completed_" \o type \o "s"] = Append(@, name)]

\* is_completed with jq: `.[$key] | contains([$name])`.  jq's contains
\* matches a string that holds $name anywhere; no name of the tree holds
\* another one, so here it is membership.
is_completed(file, type, name) ==
    \E i \in DOMAIN file["completed_" \o type \o "s"] :
        file["completed_" \o type \o "s"][i] = name

\* validate_script: every script of the tree exists, is executable and
\* passes `bash -n`.
validate_script(script) == IF script \in Scripts THEN 0 ELSE 1

\* The invocations: every combination of --setup, --resume, --force,
\* --continue-on-error and --validate-only that has --setup or
\* --validate-only.
Invocations ==
    {f \in [setup : BOOLEAN, resume : BOOLEAN, force : BOOLEAN,
            failFast : BOOLEAN, validateOnly : BOOLEAN] :
        f.setup \/ f.validateOnly}

NoChild == [pc |-> "none", pending |-> NoFile, code |-> 0]

\* entrypoint.sh before its first invocation: no lock, no state file.
EInit ==
    /\ lockFile = FALSE
    /\ stateFile = NoFile
    /\ exitFiles = {}
    /\ runNo = 0
    /\ invocations = <<>>
    /\ epc = "idle"
    /\ folderIdx = 1
    /\ itemIdx = 1
    /\ folderSuccess = TRUE
    /\ pids = <<>>
    /\ waitIdx = 1
    /\ overall = 0
    /\ children = [s \in ParallelScripts |-> NoChild]
    /\ exits = <<>>
    /\ begun = {}
    /\ finished = {}
    /\ peer = "none"

\* entrypoint.sh never invoked, for the runs of the launcher and the
\* synthesizer alone.
EIdle == EInit

\* ------------------------------------------------------------------------
\* entrypoint.sh: the main process
\* ------------------------------------------------------------------------

\* The option flags of the invocation that is running.
flags == invocations[runNo]

CurrentFolder == SetupFolders[folderIdx]
CurrentItem == CurrentFolder.items[itemIdx]

\* `exit code` of the main process.
Exit(code) ==
    /\ epc' = "exited"
    /\ exits' = Append(exits, code)

\* Argument parsing: --force is stripped first, then the option flags.  The
\* parallel_exit files carry the pid of the invocation in their name, so a
\* new invocation sees none of an earlier one.
Invoke(f) ==
    /\ epc \in {"idle", "exited"}
    /\ runNo < MaxRuns
    /\ runNo' = runNo + 1
    /\ invocations' = Append(invocations, f)
    /\ epc' = IF f.setup THEN "lock" ELSE "mode"
    /\ exitFiles' = {}
    /\ folderIdx' = 1
    /\ itemIdx' = 1
    /\ folderSuccess' = TRUE
    /\ pids' = <<>>
    /\ waitIdx' = 1
    /\ overall' = 0
    /\ children' = [s \in ParallelScripts |-> NoChild]
    /\ UNCHANGED <<lockFile, stateFile, exits, begun, finished>>
    /\ UNCHANGED <<lvars, svars, peer>>

\* `if [ -f "$LOCK_FILE" ] && [ "$FORCE_SETUP" != true ]; then exit 0`.
LockCheck ==
    /\ epc = "lock"
    /\ IF lockFile /\ ~flags.force
       THEN Exit(0)
       ELSE epc' = "touch" /\ UNCHANGED exits
    /\ UNCHANGED <<lockFile, stateFile, exitFiles, runNo, invocations, folderIdx,
                   itemIdx, folderSuccess, pids, waitIdx, overall, children,
                   begun, finished>>
    /\ UNCHANGED <<lvars, svars, peer>>

\* `touch "$LOCK_FILE"`.
LockTouch ==
    /\ epc = "touch"
    /\ lockFile' = TRUE
    /\ epc' = "mode"
    /\ UNCHANGED <<stateFile, exitFiles, runNo, invocations, folderIdx, itemIdx,
                   folderSuccess, pids, waitIdx, overall, children, exits,
                   begun, finished>>
    /\ UNCHANGED <<lvars, svars, peer>>

\* The validation-only branch: every script of the tree is validated and the
\* process exits with 0 when there is no error, before any state is set up.
ValidateOnly ==
    /\ epc = "mode"
    /\ flags.validateOnly
    /\ IF \A s \in Scripts : validate_script(s) = 0 THEN Exit(0) ELSE Exit(1)
    /\ UNCHANGED <<lockFile, stateFile, exitFiles, runNo, invocations, folderIdx,
                   itemIdx, folderSuccess, pids, waitIdx, overall, children,
                   begun, finished>>
    /\ UNCHANGED <<lvars, svars, peer>>

\* init_state_management; update_state started_at; update_state status.
InitState ==
    /\ epc = "mode"
    /\ ~flags.validateOnly
    /\ stateFile' =
          update_state(
              update_state(init_state_management(stateFile), "started_at", runNo),
              "status", "running")
    /\ epc' = "folder"
    /\ UNCHANGED <<lockFile, exitFiles, runNo, invocations, folderIdx, itemIdx,
                   folderSuccess, pids, waitIdx, overall, children, exits,
                   begun, finished>>
    /\ UNCHANGED <<lvars, svars, peer>>

\* The head of the folder loop: a folder recorded as completed is skipped in
\* resume mode; after the last folder the loop ends.
FolderStart ==
    /\ epc = "folder"
    /\ IF folderIdx > Len(SetupFolders)
       THEN epc' = "finish" /\ UNCHANGED <<folderIdx, itemIdx, folderSuccess>>
       ELSE IF flags.resume /\ is_completed(stateFile, "folder", CurrentFolder.name)
       THEN /\ folderIdx' = folderIdx + 1
            /\ UNCHANGED <<epc, itemIdx, folderSuccess>>
       ELSE /\ epc' = "item"
            /\ itemIdx' = 1
            /\ folderSuccess' = TRUE
            /\ UNCHANGED folderIdx
    /\ UNCHANGED <<lockFile, stateFile, exitFiles, runNo, invocations, pids, waitIdx,
                   overall, children, exits, begun, finished>>
    /\ UNCHANGED <<lvars, svars, peer>>

\* The scripts of a subfolder that execute_parallel_scripts starts: in
\* resume mode the ones recorded as completed are passed over.
Spawned(file, scripts) ==
    SelectSeq(scripts,
              LAMBDA s : ~(flags.resume /\ is_completed(file, "script", basename(s))))

\* The head of the item loop.  A file: execute_script up to `bash script`
\* (skipped in resume mode when its name is recorded as completed).  A
\* subfolder: execute_parallel_scripts up to the wait loop, every subshell
\* started.
ItemStart ==
    /\ epc = "item"
    /\ IF itemIdx > Len(CurrentFolder.items)
       THEN /\ epc' = "folderEnd"
            /\ UNCHANGED <<itemIdx, pids, waitIdx, overall, children, begun>>
       ELSE IF CurrentItem.kind = "file"
       THEN IF flags.resume /\ is_completed(stateFile, "script", basename(CurrentItem.path))
            THEN /\ itemIdx' = itemIdx + 1
                 /\ UNCHANGED <<epc, pids, waitIdx, overall, children, begun>>
            ELSE /\ epc' = "script"
                 /\ begun' = begun \cup {<<runNo, CurrentItem.path>>}
                 /\ UNCHANGED <<itemIdx, pids, waitIdx, overall, children>>
       ELSE /\ pids' = Spawned(stateFile, CurrentItem.scripts)
            /\ children' =
                  [s \in ParallelScripts |->
                      IF \E i \in DOMAIN pids' : pids'[i] = s
                      THEN [NoChild EXCEPT !.pc = "start"]
                      ELSE children[s]]
            /\ waitIdx' = 1
            /\ overall' = 0
            /\ epc' = "wait"
            /\ UNCHANGED <<itemIdx, begun>>
    /\ UNCHANGED <<lockFile, stateFile, exitFiles, runNo, invocations, folderIdx,
                   folderSuccess, exits, finished>>
    /\ UNCHANGED <<lvars, svars, peer>>

\* `bash script` of a sequential item ends with `code`: execute_script
\* records the name on success, sets the status and (fail-fast) exits on
\* failure; the item loop clears folder_success on a failure it sees.
ScriptExit(code) ==
    /\ epc = "script"
    /\ finished' = finished \cup {<<runNo, CurrentItem.path, code>>}
    /\ IF code = 0
       THEN /\ stateFile' = add_to_completed(stateFile, "script", basename(CurrentItem.path))
            /\ itemIdx' = itemIdx + 1
            /\ epc' = "item"
            /\ UNCHANGED <<folderSuccess, exits>>
       ELSE /\ stateFile' = update_state(stateFile, "status", "failed")
            /\ IF flags.failFast
               THEN Exit(code) /\ UNCHANGED <<itemIdx, folderSuccess>>
               ELSE /\ folderSuccess' = FALSE
                    /\ itemIdx' = itemIdx + 1
                    /\ epc' = "item"
                    /\ UNCHANGED exits
    /\ UNCHANGED <<lockFile, exitFiles, runNo, invocations, folderIdx, pids, waitIdx,
                   overall, children, begun>>
    /\ UNCHANGED <<lvars, svars, peer>>

\* One round of the wait loop: `wait` for the subshell at index i, then look
\* for the exit file named after parallel_scripts[i].
WaitChild ==
    /\ epc = "wait"
    /\ waitIdx <= Len(pids)
    /\ children[pids[waitIdx]].pc = "done"
    /\ LET name == basename(CurrentItem.scripts[waitIdx])
           files == {e \in exitFiles : e[1] = name}
       IN  IF files = {}
           THEN /\ waitIdx' = waitIdx + 1
                /\ UNCHANGED <<exitFiles, overall>>
           ELSE /\ exitFiles' = exitFiles \ files
                /\ IF \E e \in files : e[2] # 0
                   THEN /\ overall' = 1
                        /\ waitIdx' = IF flags.failFast THEN Len(pids) + 1
                                      ELSE waitIdx + 1
                   ELSE /\ waitIdx' = waitIdx + 1
                        /\ UNCHANGED overall
    /\ UNCHANGED <<lockFile, stateFile, runNo, invocations, epc, folderIdx, itemIdx,
                   folderSuccess, pids, children, exits, begun, finished>>
    /\ UNCHANGED <<lvars, svars, peer>>

\* execute_parallel_scripts returns overall_exit_code to the item loop.
ParallelReturn ==
    /\ epc = "wait"
    /\ waitIdx > Len(pids)
    /\ IF overall # 0
       THEN IF flags.failFast
            THEN Exit(1) /\ UNCHANGED <<itemIdx, folderSuccess>>
            ELSE /\ folderSuccess' = FALSE
                 /\ itemIdx' = itemIdx + 1
                 /\ epc' = "item"
                 /\ UNCHANGED exits
       ELSE /\ itemIdx' = itemIdx + 1
            /\ epc' = "item"
            /\ UNCHANGED <<folderSuccess, exits>>
    /\ UNCHANGED <<lockFile, stateFile, exitFiles, runNo, invocations, folderIdx, pids,
                   waitIdx, overall, children, begun, finished>>
    /\ UNCHANGED <<lvars, svars, peer>>

\* After the items of a folder: the folder is recorded when folder_success.
FolderEnd ==
    /\ epc = "folderEnd"
    /\ stateFile' = IF folderSuccess
                    THEN add_to_completed(stateFile, "folder", CurrentFolder.name)
                    ELSE stateFile
    /\ folderIdx' = folderIdx + 1
    /\ epc' = "folder"
    /\ UNCHANGED <<lockFile, exitFiles, runNo, invocations, itemIdx, folderSuccess,
                   pids, waitIdx, overall, children, exits, begun, finished>>
    /\ UNCHANGED <<lvars, svars, peer>>

\* After the folder loop: `update_state "status" "completed"`, and the
\* script ends with status 0.
Finish ==
    /\ epc = "finish"
    /\ stateFile' = update_state(stateFile, "status", "completed")
    /\ Exit(0)
    /\ UNCHANGED <<lockFile, exitFiles, runNo, invocations, folderIdx, itemIdx,
                   folderSuccess, pids, waitIdx, overall, children, begun,
                   finished>>
    /\ UNCHANGED <<lvars, svars, peer>>

\* ------------------------------------------------------------------------
\* entrypoint.sh: the subshells of execute_parallel_scripts
\* ------------------------------------------------------------------------

\* The subshell calls execute_script: in resume mode a name recorded as
\* completed returns 0 at once (and the exit file is written), otherwise
\* `bash script` starts.
ChildBegin(s) ==
    /\ children[s].pc = "start"
    /\ IF flags.resume /\ is_completed(stateFile, "script", basename(s))
       THEN /\ children' = [children EXCEPT ![s].pc = "done"]
            /\ exitFiles' = exitFiles \cup {<<basename(s), 0>>}
            /\ UNCHANGED begun
       ELSE /\ children' = [children EXCEPT ![s].pc = "running"]
            /\ begun' = begun \cup {<<runNo, s>>}
            /\ UNCHANGED exitFiles
    /\ UNCHANGED <<lockFile, stateFile, runNo, invocations, epc, folderIdx, itemIdx,
                   folderSuccess, pids, waitIdx, overall, exits, finished>>
    /\ UNCHANGED <<lvars, svars, peer>>

\* `bash script` ends with `code` and jq reads the state file into a
\* temporary file: add_to_completed on success, update_state on failure.
ChildExit(s, code) ==
    /\ children[s].pc = "running"
    /\ finished' = finished \cup {<<runNo, s, code>>}
    /\ children' =
          [children EXCEPT
              ![s] = [pc |-> "mv",
                      pending |-> IF code = 0
                                  THEN add_to_completed(stateFile, "script", basename(s))
                                  ELSE update_state(stateFile, "status", "failed"),
                      code |-> code]]
    /\ UNCHANGED <<lockFile, stateFile, exitFiles, runNo, invocations, epc, folderIdx,
                   itemIdx, folderSuccess, pids, waitIdx, overall, exits,
                   begun>>
    /\ UNCHANGED <<lvars, svars, peer>>

\* `mv -f "$temp_file" "$STATE_FILE"`, then the end of the subshell: in
\* fail-fast mode a failure makes execute_script `exit`, which ends the
\* subshell before `echo $? > exit file`; otherwise the exit file is written.
ChildMove(s) ==
    /\ children[s].pc = "mv"
    /\ stateFile' = children[s].pending
    /\ exitFiles' = IF children[s].code # 0 /\ flags.failFast
                    THEN exitFiles
                    ELSE exitFiles \cup {<<basename(s), children[s].code>>}
    /\ children' = [children EXCEPT ![s].pc = "done", ![s].pending = NoFile]
    /\ UNCHANGED <<lockFile, runNo, invocations, epc, folderIdx, itemIdx,
                   folderSuccess, pids, waitIdx, overall, exits, begun,
                   finished>>
    /\ UNCHANGED <<lvars, svars, peer>>

ENext ==
    \/ \E f \in Invocations : Invoke(f)
    \/ LockCheck
    \/ LockTouch
    \/ ValidateOnly
    \/ InitState
    \/ FolderStart
    \/ ItemStart
    \/ \E code \in ScriptCodes : ScriptExit(code)
    \/ WaitChild
    \/ ParallelReturn
    \/ FolderEnd
    \/ Finish
    \/ \E s \in ParallelScripts : ChildBegin(s)
    \/ \E s \in ParallelScripts, code \in ScriptCodes : ChildExit(s, code)
    \/ \E s \in ParallelScripts : ChildMove(s)

\* ------------------------------------------------------------------------
\* entrypoint.sh: a second `--setup` process started next to the first
\* ------------------------------------------------------------------------
\* The second process runs the same script on the same /tmp files; its steps
\* are followed from its start to the start of its first script.

\* `entrypoint.sh --setup` of the second process, at any moment.
PeerInvoke ==
    /\ peer = "none"
    /\ peer' = "lock"
    /\ UNCHANGED <<lockFile, stateFile, exitFiles, runNo, invocations, epc,
                   folderIdx, itemIdx, folderSuccess, pids, waitIdx, overall,
                   children, exits, begun, finished>>
    /\ UNCHANGED <<lvars, svars>>

\* `if [ -f "$LOCK_FILE" ] && [ "$FORCE_SETUP" != true ]; then exit 0`.
PeerLockCheck ==
    /\ peer = "lock"
    /\ peer' = IF lockFile THEN "exited" ELSE "touch"
    /\ UNCHANGED <<lockFile, stateFile, exitFiles, runNo, invocations, epc,
                   folderIdx, itemIdx, folderSuccess, pids, waitIdx, overall,
                   children, exits, begun, finished>>
    /\ UNCHANGED <<lvars, svars>>

\* `touch "$LOCK_FILE"`.
PeerLockTouch ==
    /\ peer = "touch"
    /\ lockFile' = TRUE
    /\ peer' = "mode"
    /\ UNCHANGED <<stateFile, exitFiles, runNo, invocations, epc, folderIdx,
                   itemIdx, folderSuccess, pids, waitIdx, overall, children,
                   exits, begun, finished>>
    /\ UNCHANGED <<lvars, svars>>

\* init_state_management; update_state started_at; update_state status.
PeerInitState ==
    /\ peer = "mode"
    /\ stateFile' =
          update_state(
              update_state(init_state_management(stateFile), "started_at", 0),
              "status", "running")
    /\ peer' = "item"
    /\ UNCHANGED <<lockFile, exitFiles, runNo, invocations, epc, folderIdx,
                   itemIdx, folderSuccess, pids, waitIdx, overall, children,
                   exits, begun, finished>>
    /\ UNCHANGED <<lvars, svars>>

\* The first item of the first folder: execute_script starts `bash script`.
PeerItemStart ==
    /\ peer = "item"
    /\ begun' = begun \cup {<<0, SetupFolders[1].items[1].path>>}
    /\ peer' = "script"
    /\ UNCHANGED <<lockFile, stateFile, exitFiles, runNo, invocations, epc,
                   folderIdx, itemIdx, folderSuccess, pids, waitIdx, overall,
                   children, exits, finished>>
    /\ UNCHANGED <<lvars, svars>>

ConcurrentNext ==
    \/ \E f \in Invocations : Invoke(f)
    \/ LockCheck
    \/ LockTouch
    \/ ValidateOnly
    \/ InitState
    \/ FolderStart
    \/ ItemStart
    \/ \E code \in ScriptCodes : ScriptExit(code)
    \/ WaitChild
    \/ ParallelReturn
    \/ FolderEnd
    \/ Finish
    \/ \E s \in ParallelScripts : ChildBegin(s)
    \/ \E s \in ParallelScripts, code \in ScriptCodes : ChildExit(s, code)
    \/ \E s \in ParallelScripts : ChildMove(s)
    \/ PeerInvoke
    \/ PeerLockCheck
    \/ PeerLockTouch
    \/ PeerInitState
    \/ PeerItemStart

\* ------------------------------------------------------------------------
\* Specifications
\* ------------------------------------------------------------------------

vars == <<lvars, svars, evars>>

\* One launch.
Init == LInit /\ SIdle /\ EIdle
Spec == Init /\ [][LNext]_vars

\* One call of WrapDockerFile, for every settings object and answer.
InitSettings == LInit /\ SInitSettings /\ EIdle
SpecSettings == InitSettings /\ [][SNext]_vars

\* One call of WrapDockerFile, for every descriptor and repository.
InitSynth == LInit /\ SInitSynth /\ EIdle
SpecSynth == InitSynth /\ [][SNext]_vars

\* WrapDockerFile, the docker build command and the docker run command, for
\* every descriptor.
InitCommands == LInit /\ SInitCommands /\ EIdle
SpecCommands == InitCommands /\ [][CNext]_vars

\* One launcher invocation on a descriptor and a settings repository, next
\* to other processes of the host.
InitLaunch == LInit /\ SInitLaunch /\ EIdle
SpecLaunch == InitLaunch /\ [][LaunchNext]_vars

\* entrypoint.sh invoked up to MaxRuns times in one container.
InitSetup == LInit /\ SIdle /\ EInit
SpecSetup == InitSetup /\ [][ENext]_vars
SpecConcurrent == InitSetup /\ [][ConcurrentNext]_vars

\* ------------------------------------------------------------------------
\* Claims about the launcher
\* ------------------------------------------------------------------------

Cmds == [i \in 1..Len(engineCalls) |-> engineCalls[i].cmd]
CallsOf(c) == SelectSeq(engineCalls, LAMBDA call : call.cmd = c)
Ended == exitStatus # "running"

\* C1: once Run has started the run subprocess, one or more HUP/INT/TERM
\* signals make the launcher issue `docker kill <name>` exactly once, with
\* the name that was given to `docker run --name`. Stated on the launcher's
\* end: if a signal came after the start, one kill was issued, for that name.
C1_SignalKillsExactlyOnce ==
    (Ended /\ sigAfterStart >= 1) =>
        /\ Len(CallsOf("kill")) = 1
        /\ CallsOf("kill")[1].name = CallsOf("run")[1].name

\* C2: after the signal, Run always gets to return, also when the kill
\* command failed and the run subprocess is still alive: once the kill
\* command has finished, Run is not blocked on anything.
C2_RunNotBlockedAfterKill ==
    (pc = "deferWait") => ENABLED LauncherStep

\* C3: the wait inside Run ends on a signal or on the supervised process
\* exiting on its own: with the run subprocess gone, Run is not left
\* blocked in the wait.
C3_WaitEndsOnProcessExit ==
    (pc = "waitSignal" /\ runProc = "exited") => ENABLED LauncherStep

\* C4: when cmd.Start fails, the launcher never enters the signal wait,
\* reports the error and exits with a non-zero status.
C4_LaunchErrorFatal ==
    (runProc = "notStarted") =>
        /\ ~notified
        /\ pc \notin {"notify", "waitSignal", "killStart", "killWait", "deferWait"}
        /\ exitStatus \in {"exit0", "exit1"} => (exitStatus = "exit1" /\ reported)

\* C5: when the kill command fails, Run returns no error to its caller and
\* the launcher exits with status zero.
C5_KillFailureNotPropagated ==
    (killProc = "failed" /\ runResult # "none") =>
        /\ runResult = "nil"
        /\ exitStatus \in {"exit0", "exit1"} => exitStatus = "exit0"

\* C6: the phases of a launch follow one another without overlap: parse,
\* build, address resolution, run. Address resolution starts only after
\* docker build has exited with status 0, docker run is issued only after
\* the address has been resolved, and after a failed build there is no port
\* resolution, no docker run, no docker kill, and the exit status is not 0.
C6_PhaseOrder ==
    /\ Cmds \in {<<>>, <<"build">>, <<"build", "run">>, <<"build", "run", "kill">>}
    /\ engineCalls # <<>> =>
          /\ pc \notin {"checkArgs", "statProject", "statDevcontainer",
                        "parseJson", "gistNew", "wrapDockerFile"}
          /\ met \cap {"noArgs", "noProjectDir", "noDevcontainerDir", "noJson",
                       "badJson", "noGistId", "noDockerfile"} = {}
    /\ buildProc = "running" =>
          /\ listener = "none" /\ url = NoURL
          /\ runProc = "none" /\ killProc = "none"
    /\ (listener # "none" \/ url # NoURL) => buildProc = "exit0"
    /\ listener = "open" => (runProc = "none" /\ CallsOf("run") = <<>>)
    /\ CallsOf("run") # <<>> =>
          /\ buildProc = "exit0"
          /\ listener = "closed"
          /\ url.Host # "" /\ url.Port \in Ports /\ url.WorkspaceFolder # ""
    /\ buildProc \in {"exit1", "notStarted"} =>
          /\ listener = "none" /\ url = NoURL
          /\ CallsOf("run") = <<>> /\ CallsOf("kill") = <<>>
          /\ exitStatus # "exit0"
          /\ (pc = "exited" => (exitStatus = "exit1" /\ reported))

\* A launch that went through every phase: built, resolved, ran and killed.
C6_Witness ==
    /\ Cmds = <<"build", "run", "kill">>
    /\ buildProc = "exit0" /\ listener = "closed"

\* C7: each failure before the build (no directory argument, no project
\* directory, no .devcontainer directory, devcontainer.json missing or
\* malformed, SETTINGS_SYNC_GIST_ID unset) ends the launcher with a
\* non-zero status and without a single docker build, run or kill.
C7_PreBuildFailuresCallNoEngine ==
    (met \cap {"noArgs", "noProjectDir", "noDevcontainerDir", "noJson",
               "badJson", "noGistId"} # {}) =>
        /\ engineCalls = <<>>
        /\ buildProc = "none" /\ runProc = "none" /\ killProc = "none"
        /\ pc = "exited" /\ exitStatus = "exit1" /\ reported

\* The launcher has ended on an unset SETTINGS_SYNC_GIST_ID.
C7_Witness ==
    /\ "noGistId" \in met
    /\ pc = "exited"
    /\ mainErr = "SETTINGS_SYNC_GIST_ID is not set"

\* ------------------------------------------------------------------------
\* The synthesized Dockerfile, read back
\* ------------------------------------------------------------------------

SettingsTarget == "' | base64 -d > /opt/code-server/.vscode/User/settings.json"
KeybindingsTarget == "' | base64 -d > /opt/code-server/.vscode/User/keybindings.json"
EntryTarget == "' | base64 -d > /opt/code-server/entrypoint.sh"

\* What the line of `content` that writes `target` leaves in the file: the
\* line's payload through `base64 -d`.
WrittenTo(content, target) ==
    Base64Decode((CHOOSE l \in {content[i] : i \in DOMAIN content} : l.post = target).b64)

\* The settings.json of the image, parsed.
SettingsPayload == Unmarshal(WrittenTo(out.content, SettingsTarget))

\* The descriptor's own settings as an object ({} when it has none).
OwnSettings == IF loaded.Settings.nil THEN EmptyMap ELSE loaded.Settings.m

\* What the repository holds for settings.json, parsed.
RemoteSettingsValue == Unmarshal(repository["settings.json"].content)
RemoteIsObject ==
    /\ repository["settings.json"].ok
    /\ RemoteSettingsValue.ok
    /\ RemoteSettingsValue.v.t = "obj"

\* The payload is an object that gives key k the value v.
PayloadMaps(k, v) ==
    /\ SettingsPayload.ok
    /\ SettingsPayload.v.t = "obj"
    /\ k \in DOMAIN SettingsPayload.v.m
    /\ SettingsPayload.v.m[k] = v

\* C8: for every descriptor settings object D and remote settings object R,
\* the settings payload of the returned Dockerfile, decoded and parsed, maps
\* every key of D to D's value, whatever that value is, and every key that
\* is only in R to R's value.
C8_DescriptorValuesWin ==
    (spc = "returned" /\ out.err = "nil" /\ RemoteIsObject) =>
        /\ \A k \in DOMAIN OwnSettings : PayloadMaps(k, OwnSettings[k])
        /\ \A k \in DOMAIN RemoteSettingsValue.v.m \ DOMAIN OwnSettings :
              PayloadMaps(k, RemoteSettingsValue.v.m[k])

\* C9: whenever the base Dockerfile is readable and the repository fails for
\* settings.json (an error, or content that is not a settings object),
\* WrapDockerFile returns success and the decoded settings payload is
\* exactly the descriptor's own settings, {} when it has none.
C9_FetchFailureKeepsOwnSettings ==
    (/\ spc = "returned"
     /\ ReadFile(filepathJoin(loaded.DirPath, loaded.Build.Dockerfile)).ok
     /\ repository["settings.json"] \in FailingResponses) =>
        /\ out.err = "nil"
        /\ SettingsPayload = [ok |-> TRUE, v |-> JObj(OwnSettings)]

\* WrapDockerFile has returned for a descriptor with settings of its own
\* and a repository whose settings.json is the malformed text "{".
C9_Witness ==
    /\ spc = "returned"
    /\ out.err = "nil"
    /\ repository["settings.json"] = Found(<<123>>)
    /\ ~loaded.Settings.nil
    /\ DOMAIN loaded.Settings.m = SettingKeys

\* The kind of a line of the synthesized text, by its fixed text.
LineKind(l) ==
    CASE l = Plain("RUN curl -fsSL https://code-server.dev/install.sh | sh") -> "install"
      [] l = Plain("RUN mkdir -p /opt/code-server/.vscode/User") -> "mkdirUser"
      [] l.pre = "RUN echo '" /\ l.post = SettingsTarget -> "settings"
      [] l.pre = "RUN echo '" /\ l.post = KeybindingsTarget -> "keybindings"
      [] l = Plain("RUN mkdir -p /opt/code-server") -> "mkdirEntry"
      [] l.pre = "RUN echo '" /\ l.post = EntryTarget -> "entryScript"
      [] l = Plain("RUN chmod +x /opt/code-server/entrypoint.sh") -> "chmodEntry"
      [] /\ l.pre = "RUN code-server --install-extension "
         /\ l.post = " --extensions-dir /opt/code-server/.vscode/extensions/" -> "extension"
      [] l = Plain("RUN echo \"auth: none\" > /opt/code-server/config.yml") -> "auth"
      [] l = Plain("RUN chmod -R o+wr /opt/code-server/") -> "permission"
      [] l = Plain("ENTRYPOINT [\"/opt/code-server/entrypoint.sh\"]") -> "entrypoint"
      [] l = Plain("") -> "blank"
      [] OTHER -> "other"

\* The kinds of the lines of `content` after its first n lines.
KindsAfter(content, n) == [i \in 1..(Len(content) - n) |-> LineKind(content[n + i])]

\* The base Dockerfile of the descriptor as loaded.
BaseDockerfile == ReadFile(filepathJoin(loaded.DirPath, loaded.Build.Dockerfile))

\* The extension-install section for a list of extensions: one line each,
\* or the single empty line of an empty section.
ExtensionKinds(exts) ==
    IF Len(exts) = 0 THEN <<"blank">> ELSE [i \in 1..Len(exts) |-> "extension"]

\* The text TestDockerfile expects, as lines; the payloads are the bytes of
\* "e30K" and of the expected entry script's base64.
TestExpected ==
    <<Plain("FROM golang:1.12.5"),
      Plain("RUN curl -fsSL https://code-server.dev/install.sh | sh"),
      Plain("RUN mkdir -p /opt/code-server/.vscode/User"),
      Line("RUN echo '", "", <<101, 51, 48, 75>>, SettingsTarget),
      Plain(""),
      Plain("RUN mkdir -p /opt/code-server"),
      Line("RUN echo '", "",
           <<73, 121, 69, 118, 89, 109, 108, 117, 76, 50, 74, 104, 99, 50, 103, 75,
             99, 50, 86, 48, 73, 67, 49, 108, 67, 110, 78, 108, 100, 67, 65, 116,
             101, 65, 111, 75, 89, 50, 57, 107, 90, 83, 49, 122, 90, 88, 74, 50,
             90, 88, 73, 103, 76, 83, 49, 49, 99, 50, 86, 121, 76, 87, 82, 104,
             100, 71, 69, 116, 90, 71, 108, 121, 73, 67, 57, 118, 99, 72, 81, 118,
             89, 50, 57, 107, 90, 83, 49, 122, 90, 88, 74, 50, 90, 88, 73, 118,
             76, 110, 90, 122, 89, 50, 57, 107, 90, 83, 65, 116, 76, 87, 78, 118,
             98, 109, 90, 112, 90, 121, 65, 118, 98, 51, 66, 48, 76, 50, 78, 118,
             90, 71, 85, 116, 99, 50, 86, 121, 100, 109, 86, 121, 76, 50, 78, 118,
             98, 109, 90, 112, 90, 121, 53, 53, 98, 87, 119, 103, 76, 83, 49, 105,
             97, 87, 53, 107, 76, 87, 70, 107, 90, 72, 73, 103, 77, 67, 52, 119,
             76, 106, 65, 117, 77, 68, 111, 52, 77, 68, 103, 119>>,
           EntryTarget),
      Plain("RUN chmod +x /opt/code-server/entrypoint.sh"),
      Plain(""),
      Plain("RUN echo \"auth: none\" > /opt/code-server/config.yml"),
      Plain("RUN chmod -R o+wr /opt/code-server/"),
      Plain("ENTRYPOINT [\"/opt/code-server/entrypoint.sh\"]")>>

\* C10: the text WrapDockerFile returns is, in this order, the base
\* Dockerfile verbatim, the installer line, the settings block, the
\* keybindings block (or its empty line), the entry-script block ending in
\* its chmod line, the extension-install lines in the descriptor's order (or
\* their empty line), the auth config line, the permission line, and the
\* ENTRYPOINT line last; for TestDockerfile's inputs it is the text the test
\* expects.
C10_SectionOrder ==
    (spc = "returned" /\ out.err = "nil") =>
        /\ BaseDockerfile.ok
        /\ Len(out.content) > Len(BaseDockerfile.data)
        /\ SubSeq(out.content, 1, Len(BaseDockerfile.data)) = BaseDockerfile.data
        /\ \E kb \in {<<"blank">>, <<"mkdirUser", "keybindings">>} :
              KindsAfter(out.content, Len(BaseDockerfile.data)) =
                  <<"install", "mkdirUser", "settings">> \o kb
                  \o <<"mkdirEntry", "entryScript", "chmodEntry">>
                  \o ExtensionKinds(loaded.Extensions)
                  \o <<"auth", "permission", "entrypoint">>
        /\ \A i \in 1..Len(loaded.Extensions) :
              out.content[Len(out.content) - 3 - Len(loaded.Extensions) + i].arg
                  = loaded.Extensions[i]
        /\ (loaded = TestDescriptor /\ repository = EmptyRepository) =>
              out.content = TestExpected

\* WrapDockerFile has returned a text with a keybindings block and two
\* extension lines for a descriptor in a project directory.
C10_Witness ==
    /\ spc = "returned"
    /\ out.err = "nil"
    /\ loaded.DirPath = ProjectDir
    /\ loaded.Extensions = <<"golang.Go", "ms-python.python">>
    /\ loaded.PostCreateCommand = GoVersion
    /\ \E i \in DOMAIN out.content : LineKind(out.content[i]) = "keybindings"

\* The keybindings a file of the repository holds, when it is fetched, not
\* empty and decodes.
ValidKeybindings(filename) ==
    /\ repository[filename].ok
    /\ Len(repository[filename].content) > 0
    /\ UnmarshalKeyBindings(repository[filename].content).ok

\* The keybindings.json of the image, decoded.
KeybindingsPayload == UnmarshalKeyBindings(WrittenTo(out.content, KeybindingsTarget))

\* The place of a filename in the fetches made, 0 when it was not fetched.
FetchIndex(filename) ==
    IF \E i \in DOMAIN fetched : fetched[i] = filename
    THEN CHOOSE i \in DOMAIN fetched : fetched[i] = filename
    ELSE 0

\* C11: keybindingsMac.json is tried before keybindings.json, and when both
\* hold valid non-empty content the injected keybindings are those of
\* keybindingsMac.json.
C11_PlatformKeyFirst ==
    (/\ spc = "returned"
     /\ out.err = "nil"
     /\ ValidKeybindings("keybindingsMac.json")
     /\ ValidKeybindings("keybindings.json")) =>
        /\ FetchIndex("keybindingsMac.json") > 0
        /\ FetchIndex("keybindings.json") \in {0} \cup
               {i \in DOMAIN fetched : i > FetchIndex("keybindingsMac.json")}
        /\ \E i \in DOMAIN out.content : LineKind(out.content[i]) = "keybindings"
        /\ KeybindingsPayload.list =
               UnmarshalKeyBindings(repository["keybindingsMac.json"].content).list

\* C12: the descriptor the caller holds, the contents of its settings map
\* included, is the same after WrapDockerFile as it was when loaded.
C12_DescriptorNotMutated ==
    (spc = "returned") => devcontainer = loaded

\* A path under the rule "as-is when absolute, joined onto the descriptor's
\* directory when relative", and the file the operating system opens for it.
ResolvedByRule(p) == IF p.abs THEN p ELSE filepathJoin(loaded.DirPath, p)
Opened(p) == IF p.abs THEN p ELSE filepathJoin(WorkingDir, p)

\* C13: WrapDockerFile reads build.dockerfile as-is when it is absolute and
\* joined onto the descriptor's directory when it is relative, whatever the
\* directory is; the build context is resolved by the same rule.
C13_PathResolution ==
    /\ (spc # "ready" /\ spc # "idle") =>
          IF Opened(ResolvedByRule(loaded.Build.Dockerfile)) \in DOMAIN Files
          THEN /\ out.err = "nil"
               /\ SubSeq(out.content, 1,
                         Len(Files[Opened(ResolvedByRule(loaded.Build.Dockerfile))]))
                     = Files[Opened(ResolvedByRule(loaded.Build.Dockerfile))]
          ELSE out.err = "ReadFile"
    /\ (spc \in {"built", "context"}) =>
          buildCmd.args[Len(buildCmd.args)]
              = Text(PathString(ResolvedByRule(loaded.Build.Context)))

\* The arguments of docker run after `run --rm`: the name flag at namePos,
\* the binding of a resolved port to 8080 at portPos, then the bind mount,
\* the working directory, the runArgs entries, a -p per forwardPorts entry,
\* -u and the user when there is one, and the image tag last.
RunArgsInOrder(a, namePos, portPos) ==
    /\ Len(a) = 10 + Len(loaded.RunArgs) + 2 * Len(loaded.ForwardPorts)
                + (IF loaded.RemoteUser # "" THEN 2 ELSE 0) + 1
    /\ a[1] = Text("run") /\ a[2] = Text("--rm")
    /\ a[namePos] = Text("--name") /\ a[namePos + 1] = Text(runCmd.name)
    /\ a[portPos] = Text("-p")
    /\ \E port \in Ports : a[portPos + 1] = Text("0.0.0.0:" \o ToString(port) \o ":8080")
    /\ a[7] = Text("--mount")
    /\ a[9] = Text("-w")
    /\ \A i \in 1..Len(loaded.RunArgs) : a[10 + i] = Text(loaded.RunArgs[i])
    /\ \A i \in 1..Len(loaded.ForwardPorts) :
          /\ a[10 + Len(loaded.RunArgs) + 2 * i - 1] = Text("-p")
          /\ a[10 + Len(loaded.RunArgs) + 2 * i] = Text(loaded.ForwardPorts[i])
    /\ (loaded.RemoteUser # "") =>
          /\ a[Len(a) - 2] = Text("-u")
          /\ a[Len(a) - 1] = Text(loaded.RemoteUser)
    /\ a[Len(a)] = buildCmd.args[3]

\* C14 as stated: the name flag comes first, the port binding second, then
\* the mount, the working directory, runArgs, forwardPorts, the user flag
\* if and only if remoteUser is set, and the tag last.
C14_NameFlagFirst ==
    (spc = "context") => RunArgsInOrder(runCmd.args, 3, 5)

\* C14: the argument list of docker run is `run --rm`, the port binding
\* 0.0.0.0:<port>:8080, the name flag, the workspace bind mount, the working
\* directory, every runArgs entry in order, one -p per forwardPorts entry in
\* order, a user flag if and only if remoteUser is not empty, and the image
\* tag last.
C14_RunArgumentOrder ==
    (spc = "context") => RunArgsInOrder(runCmd.args, 5, 3)

\* A docker run command built for a descriptor with two runArgs, two
\* forwardPorts and a remoteUser.
C14_Witness ==
    /\ spc = "context"
    /\ Len(loaded.RunArgs) = 2
    /\ Len(loaded.ForwardPorts) = 2
    /\ loaded.RemoteUser = "vscode"
    /\ Len(runCmd.args) = 19

\* The extension-install lines of the returned text, in the text's order.
ExtensionLines == SelectSeq(out.content, LAMBDA l : LineKind(l) = "extension")

\* C15: the returned text has exactly one `RUN code-server
\* --install-extension <id> ...` line per entry of `extensions`, in
\* declaration order, a repeated id giving repeated lines, and no such line
\* when `extensions` is empty.
C15_OneLinePerExtension ==
    (spc = "returned" /\ out.err = "nil") =>
        /\ Len(ExtensionLines) = Len(loaded.Extensions)
        /\ \A i \in 1..Len(loaded.Extensions) :
              ExtensionLines[i] =
                  Line("RUN code-server --install-extension ", loaded.Extensions[i], <<>>,
                       " --extensions-dir /opt/code-server/.vscode/extensions/")
        /\ (loaded.Extensions = <<>>) =>
              \A i \in DOMAIN out.content :
                  out.content[i].pre # "RUN code-server --install-extension "

\* WrapDockerFile has returned for a descriptor that names the same
\* extension twice.
C15_Witness ==
    /\ spc = "returned"
    /\ out.err = "nil"
    /\ loaded.Extensions = <<"golang.Go", "golang.Go">>
    /\ Len(ExtensionLines) = 2

\* The tag of the docker build command, as bytes.
ImageTag == buildCmd.args[3].bytes

\* "_code_coder_server"
TagSuffix ==
    <<95, 99, 111, 100, 101, 95, 99, 111, 100, 101, 114, 95, 115, 101, 114, 118, 101, 114>>

\* C16: the image tag has no upper-case letter and no space, ends in
\* "_code_coder_server", and a second call of getImageTag on the same
\* descriptor gives the same string.
C16_ImageTag ==
    (spc \in {"built", "context"}) =>
        /\ \A i \in DOMAIN ImageTag : ImageTag[i] \notin 65..90 /\ ImageTag[i] # 32
        /\ Len(ImageTag) = Len(loaded.Name) + Len(TagSuffix)
        /\ SubSeq(ImageTag, Len(loaded.Name) + 1, Len(ImageTag)) = TagSuffix
        /\ getImageTag(loaded) = ImageTag
        /\ (spc = "context") => runCmd.args[Len(runCmd.args)].bytes = ImageTag

\* The image has been tagged for a descriptor named "A " (an upper-case
\* letter and a space).
C16_Witness ==
    /\ spc = "built"
    /\ loaded.Name = <<65, 32>>
    /\ ImageTag = <<97, 95>> \o TagSuffix

\* ------------------------------------------------------------------------
\* entrypoint.sh: what the invocations did
\* ------------------------------------------------------------------------

\* The scripts `bash` was started on in invocation r, the ones that exited
\* non-zero in it, and the ones that exited with 0 in it.
RanIn(r) == {s \in Scripts : <<r, s>> \in begun}
FailedIn(r) == {s \in Scripts : \E c \in ScriptCodes \ {0} : <<r, s, c>> \in finished}
SucceededIn(r) == {s \in Scripts : <<r, s, 0>> \in finished}

\* The invocations that have ended.
EndedRuns == 1..Len(exits)

\* An invocation with --setup and without --validate-only.
SetupRun(f) == f.setup /\ ~f.validateOnly

\* The folder and the item of the folder a script belongs to (a script of a
\* parallel subfolder belongs to the subfolder's item).
FolderOf(s) == CHOOSE i \in DOMAIN SetupFolders : SetupFolders[i].name = s[1]
ItemOf(s) ==
    CHOOSE j \in DOMAIN SetupFolders[FolderOf(s)].items :
        \/ SetupFolders[FolderOf(s)].items[j].path = s
        \/ \E k \in DOMAIN SetupFolders[FolderOf(s)].items[j].scripts :
              SetupFolders[FolderOf(s)].items[j].scripts[k] = s

\* t belongs to an item that sorts after the item of s, or to a later folder.
After(t, s) ==
    \/ FolderOf(t) > FolderOf(s)
    \/ FolderOf(t) = FolderOf(s) /\ ItemOf(t) > ItemOf(s)

\* C17: after a --setup run has stopped on a failing script in fail-fast
\* mode, a following `--setup --resume` invocation without --force
\* re-executes the failed script, and (unless it stops on a failure itself)
\* every script that had not run yet.
C17_ResumeReexecutesFailed ==
    \A r \in EndedRuns :
        ( /\ r > 1
          /\ SetupRun(invocations[r - 1])
          /\ invocations[r - 1].failFast
          /\ exits[r - 1] # 0
          /\ FailedIn(r - 1) # {}
          /\ SetupRun(invocations[r])
          /\ invocations[r].resume
          /\ ~invocations[r].force )
        => /\ FailedIn(r - 1) \subseteq RanIn(r)
           /\ exits[r] = 0 =>
                 \A s \in Scripts :
                    (\A q \in 1..(r - 1) : s \notin RanIn(q)) => s \in RanIn(r)

\* An invocation that went through init_state_management and has ended.
LoopRun(r) == r \in EndedRuns /\ r = runNo /\ stateFile.exists /\ stateFile.started_at = r

\* The folders recorded in completed_folders.
CompletedFolders ==
    {stateFile.completed_folders[i] : i \in DOMAIN stateFile.completed_folders}

\* C18: in fail-fast mode, when a setup script exits non-zero (a sequential
\* one or one of a parallel subfolder), entrypoint.sh exits non-zero, no
\* item that sorts after the failing one in its folder and no later folder
\* is started, and (seen in the first invocation, whose state file started
\* empty) the folder is not recorded in completed_folders.
C18_FailFastStops ==
    \A r \in EndedRuns :
        (LoopRun(r) /\ invocations[r].failFast) =>
            \A s \in FailedIn(r) :
                /\ exits[r] # 0
                /\ \A t \in RanIn(r) : ~After(t, s)
                /\ r = 1 => SetupFolders[FolderOf(s)].name \notin CompletedFolders

\* The scripts that exited with 0 in an invocation before r and failed in
\* none before r, and the ones that never exited with 0 before r.
CompletedBefore(r) ==
    {s \in Scripts : /\ \E q \in 1..(r - 1) : s \in SucceededIn(q)
                     /\ \A q \in 1..(r - 1) : s \notin FailedIn(q)}
NeverCompletedBefore(r) ==
    {s \in Scripts : \A q \in 1..(r - 1) : s \notin SucceededIn(q)}

\* An invocation in resume mode that went through the whole folder loop.
ResumedToTheEnd(r) ==
    /\ LoopRun(r)
    /\ invocations[r].resume
    /\ stateFile.status = "completed"

\* C19: in resume mode no script that completed successfully in an earlier
\* invocation is executed again, and an invocation that goes through the
\* whole loop executes every script that never completed before, also when
\* two scripts of different folders share a file name.
C19_ResumeSkipsExactlyCompleted ==
    \A r \in EndedRuns :
        /\ (LoopRun(r) /\ invocations[r].resume) =>
              RanIn(r) \cap CompletedBefore(r) = {}
        /\ ResumedToTheEnd(r) => NeverCompletedBefore(r) \subseteq RanIn(r)

\* C20: two scripts of a parallel subfolder whose .resources files name a
\* common resource are never executing at the same time.
C20_SharedResourceExclusive ==
    \A s \in ParallelScripts, t \in ParallelScripts :
        (s # t /\ children[s].pc = "running" /\ children[t].pc = "running")
        => Resources(s) \cap Resources(t) = {}

\* C21: --validate-only runs nothing and changes nothing: as long as every
\* invocation so far carried --validate-only (with any other flags, --setup
\* included), no script has been started, and neither the state file nor the
\* setup lock file exists.
C21_ValidateOnlyChangesNothing ==
    (\A r \in 1..runNo : invocations[r].validateOnly)
    => /\ begun = {}
       /\ stateFile = NoFile
       /\ lockFile = FALSE

\* C22: no retries: in one launcher invocation docker build, docker run and
\* docker kill are each issued at most once, and each settings key
\* (settings.json, each keybindings candidate) is fetched at most once,
\* whatever the outcome of each call.
C22_NoRetries ==
    /\ Len(CallsOf("build")) <= 1
    /\ Len(CallsOf("run")) <= 1
    /\ Len(CallsOf("kill")) <= 1
    /\ \A i \in DOMAIN fetched, j \in DOMAIN fetched : i # j => fetched[i] # fetched[j]

\* The launcher has ended after its docker kill failed, and the synthesizer
\* had fetched the settings and both keybindings candidates.
C22_Witness ==
    /\ Ended
    /\ killProc = "failed"
    /\ Len(CallsOf("build")) = 1
    /\ Len(CallsOf("run")) = 1
    /\ Len(CallsOf("kill")) = 1
    /\ Len(fetched) = 3

\* The first and the second candidate of createKeybindingsJson.
FirstCandidate == keybindingsJsonFilenames[1]
SecondCandidate == keybindingsJsonFilenames[2]

HasKeybindingsLine == \E i \in DOMAIN out.content : LineKind(out.content[i]) = "keybindings"

\* C23: a keybindings candidate is used only if it is fetched, not empty and
\* decodes as a keybinding list; the second candidate is fetched exactly
\* when the first was rejected; the Dockerfile has a line that writes
\* keybindings.json exactly when a candidate is usable, with the content of
\* the first usable one; and the synthesis succeeds whatever the candidates
\* hold, once the base Dockerfile is read.
C23_KeybindingsFallback ==
    (spc = "returned") =>
        /\ ReadFile(filepathJoin(loaded.DirPath, loaded.Build.Dockerfile)).ok
              <=> out.err = "nil"
        /\ out.err = "nil" =>
              /\ FetchIndex(FirstCandidate) > 0
              /\ FetchIndex(SecondCandidate) > 0 <=> ~ValidKeybindings(FirstCandidate)
              /\ FetchIndex(SecondCandidate) > 0 =>
                    FetchIndex(SecondCandidate) > FetchIndex(FirstCandidate)
              /\ HasKeybindingsLine <=>
                    (ValidKeybindings(FirstCandidate) \/ ValidKeybindings(SecondCandidate))
              /\ ValidKeybindings(FirstCandidate) =>
                    KeybindingsPayload.list =
                        UnmarshalKeyBindings(repository[FirstCandidate].content).list
              /\ (~ValidKeybindings(FirstCandidate) /\ ValidKeybindings(SecondCandidate)) =>
                    KeybindingsPayload.list =
                        UnmarshalKeyBindings(repository[SecondCandidate].content).list

\* The first candidate was fetched and is empty, the second holds an object
\* instead of a list: both were tried, the Dockerfile has no keybindings
\* line, and the synthesis succeeded.
C23_Witness ==
    /\ spc = "returned"
    /\ out.err = "nil"
    /\ repository[FirstCandidate] = Found(<<>>)
    /\ repository[SecondCandidate] = Found(<<123, 125>>)
    /\ FetchIndex(SecondCandidate) > FetchIndex(FirstCandidate)
    /\ FetchIndex(FirstCandidate) > 0
    /\ ~HasKeybindingsLine

\* The first candidate was rejected and the second one is used.
C23_WitnessFallback ==
    /\ spc = "returned"
    /\ out.err = "nil"
    /\ ~ValidKeybindings(FirstCandidate)
    /\ ValidKeybindings(SecondCandidate)
    /\ HasKeybindingsLine

\* C24: the probe listener of getAvailablePort is closed before docker run
\* is issued and nothing holds the port in between; the launcher does not
\* resolve the port again: docker run is issued with the port resolved
\* first, also when another process has bound it since.
C24_PortNotHeld ==
    /\ pc \in {"getWorkspaceFolder", "newContext", "banner", "cmdStart"} =>
          listener = "closed"
    /\ Len(CallsOf("run")) >= 1 =>
          /\ listener = "closed"
          /\ ctx.port = url.Port
          /\ runCmd.args[4] = Text("0.0.0.0:" \o ToString(url.Port) \o ":8080")

\* The launcher is about to issue docker run (the listener is closed, the
\* context is built, the banner is printed) for a port that another process
\* has bound since the port was resolved.
C24_Witness ==
    /\ pc = "cmdStart"
    /\ listener = "closed"
    /\ url.Port \in otherBound
    /\ runCmd.args[4] = Text("0.0.0.0:" \o ToString(url.Port) \o ":8080")

\* The template has an expansion of a variable that getMapEnv does not set.
UsesOtherVariable(template) ==
    \E i \in DOMAIN template :
        /\ template[i].k = "var"
        /\ template[i].s \notin {"localWorkspaceFolder", "localWorkspaceFolderBasename"}

\* The errors of the address resolution and of the workspace binding.
ResolutionErrors ==
    {"No IP address found, and no localhost found", "listen tcp :0",
     "interpolate workspaceFolder", "interpolate workspaceMount"}

\* C25: when the workspaceFolder or workspaceMount template references a
\* variable other than localWorkspaceFolder and localWorkspaceFolderBasename,
\* docker run is never issued and, once main has got as far as the
\* resolution, the launcher ends with an interpolation error and a non-zero
\* status; and after any resolution error docker run has not been issued and
\* the status is 1.
C25_ResolutionErrorsAbort ==
    /\ (UsesOtherVariable(workspaceFolderTemplate(loaded))
        \/ UsesOtherVariable(workspaceMountTemplate(loaded))) =>
          /\ Len(CallsOf("run")) = 0
          /\ pc \notin {"banner", "cmdStart"}
    /\ mainErr \in ResolutionErrors =>
          /\ Len(CallsOf("run")) = 0
          /\ exitStatus = "exit1"

\* C26: from the start of the docker run subprocess until Run returns, every
\* HUP/INT/TERM delivered to the launcher is caught and leads to docker
\* kill: the launcher is never ended by such a signal while the container
\* is left running without a kill having been issued.
C26_NoUnhandledSignalWindow ==
    ~(/\ exitStatus = "signal"
      /\ runProc = "running"
      /\ Len(CallsOf("kill")) = 0)

\* C27: banner and container agree. The banner is printed at most once, and
\* exactly once before the run subprocess is started; the port of the printed
\* service URL is the host port of the `-p 0.0.0.0:<port>:8080` binding passed
\* to docker run, and the folder of the URL is the `-w` working directory.
C27_BannerMatchesContainer ==
    /\ Len(banner) <= 1
    /\ Len(CallsOf("run")) <= 1
    /\ (pc = "cmdStart" \/ Len(CallsOf("run")) = 1) =>
          /\ Len(banner) = 1
          /\ banner[1] = url
          /\ runCmd.name = ctx.name
          /\ runCmd.args[3] = Text("-p")
          /\ runCmd.args[4] = Text("0.0.0.0:" \o ToString(banner[1].Port) \o ":8080")
          /\ runCmd.args[9] = Text("-w")
          /\ runCmd.args[10] = Text(banner[1].WorkspaceFolder)

C27_Witness ==
    /\ Len(CallsOf("run")) = 1
    /\ runProc = "running"
    /\ Len(banner) = 1
    /\ banner[1].Port = 58818
    /\ banner[1].WorkspaceFolder = "/src/proj"
    /\ runCmd.args[4] = Text("0.0.0.0:58818:8080")
    /\ runCmd.args[10] = Text("/src/proj")

\* The invocations without --force that have executed a setup script; the
\* second process counts as invocation 0.
UnforcedRunsThatExecuted ==
    {r \in 0..runNo :
        /\ RanIn(r) # {}
        /\ IF r = 0 THEN TRUE ELSE ~invocations[r].force}

\* C28: without --force at most one --setup invocation ever executes setup
\* scripts, for invocations run one after another and for two invocations
\* started concurrently.
C28_LockExcludesSecondSetup == Cardinality(UnforcedRunsThatExecuted) <= 1

\* No subshell of a parallel subfolder is still at work.
SubfolderFinished == \A s \in ParallelScripts : children[s].pc \in {"none", "done"}

\* C29: once a parallel subfolder has finished, every script of it that
\* exited with status zero is in completed_scripts of the state file,
\* whatever the interleaving of the subshells' updates of the file.
C29_NoLostCompletionRecord ==
    SubfolderFinished =>
        \A s \in ParallelScripts :
            (children[s].pc = "done" /\ <<runNo, s, 0>> \in finished) =>
                is_completed(stateFile, "script", basename(s))

\* C30: when a --setup run ends, the status of the state file is
\* "completed" only if every script executed in the run exited with status
\* zero; after a run in which some script failed the persisted status is
\* "failed".
C30_FinalStatusReflectsFailures ==
    (/\ epc = "exited"
     /\ runNo >= 1
     /\ Len(exits) = runNo
     /\ LoopRun(runNo)
     /\ SubfolderFinished) =>
        /\ stateFile.status = "completed" => FailedIn(runNo) = {}
        /\ FailedIn(runNo) # {} => stateFile.status = "failed"

====
